---------------------------- MODULE Spec2Model ----------------------------
(***************************************************************************)
(* A model of the audio-analysis pipeline of                               *)
(* src/electron/analysis/analyze_song.py.                                  *)
(*                                                                         *)
(* Numbers.  The program computes in floating point; the model computes in *)
(* fixed point over the integers:                                          *)
(*   - chroma energies are small naturals (only ratios matter: every use   *)
(*     of a chroma frame normalises it first);                             *)
(*   - template weights and key-profile weights are the program's literals *)
(*     times 100;                                                          *)
(*   - confidences, correlations and energies are in thousandths (milli);  *)
(*   - times are in microseconds.                                          *)
(* Optional values (Python's None) are sequences of length 0 or 1.         *)
(* Strings that the program parses are sequences of one-character strings. *)
(***************************************************************************)
EXTENDS Integers, Sequences, FiniteSets, TLC

VARIABLES
    argv,        \* command line: <<>> or <<file>>, file a kind of input file
    run,         \* 1 for the first invocation, 2 for the re-run on the same input
    pc,          \* position of the process in __main__ / analyze
    out,         \* the notifications printed on stdout, in order
    exit_status, \* <<>> while the process runs, <<code>> once it has exited
    loc,         \* the local variables of analyze
    tmp,         \* the temporary result file
    env,         \* what the libraries and the OS answered for this input
    first,       \* what the first invocation produced (kept for the re-run)
    host,        \* what the host application read from the result file
    fn           \* argument/result of one library function applied on its own

vars == <<argv, run, pc, out, exit_status, loc, tmp, env, first, host, fn>>

---------------------------------------------------------------------------
(* Bounds of the model *)

\* largest frame index of the chroma matrix (frames 0..MaxFrame)
MaxFrame == 1
\* largest number of library calls that raise in one run
MaxFaults == 1
\* largest energy of one bin in the chroma frames and band spectra applied to
\* the chord matcher, the key detector and the bass detector
MaxLevel == 2
\* largest number of bins that hold energy in those frames and spectra
MaxNotes == 2
\* capacity of the result file's write buffer, in chunks of the result
BufferChunks == 2
\* largest number of beats in the sequences given to detect_time_signature
MaxBeats == 17
\* longest repeating pattern of beat intervals in those sequences
PatternLen == 3
\* largest number of analysis windows in the signals given to track_tempo
MaxWindows == 3
\* largest number of beats in the sequences given to detect_downbeats
MaxMeasureBeats == 9
\* largest number of frames in the onset envelopes
MaxEnvelope == 2
\* largest length of a spectral feature sequence and of the frame-time axis
MaxFeatureFrames == 2
\* largest number of characters in a title given to the downloader
MaxTitleLen == 3

---------------------------------------------------------------------------
(* Generic helpers *)

None == <<>>
Some(v) == <<v>>
IsNone(o) == o = <<>>
Min2(a, b) == IF a < b THEN a ELSE b
Max2(a, b) == IF a > b THEN a ELSE b
Abs(a) == IF a < 0 THEN 0 - a ELSE a

RECURSIVE ISqrtIter(_, _, _)
ISqrtIter(n, lo, hi) ==
    IF lo >= hi THEN lo
    ELSE LET mid == (lo + hi + 1) \div 2
         IN IF mid * mid <= n THEN ISqrtIter(n, mid, hi)
            ELSE ISqrtIter(n, lo, mid - 1)

\* floor of the square root of n, 0 <= n < 2^31
ISqrt(n) == ISqrtIter(n, 0, 46340)

\* Python: s.find(sep) + 1 (0 when sep does not occur in s)
IndexOf(s, sep) ==
    LET hits == {i \in 1..(Len(s) - Len(sep) + 1) :
                    SubSeq(s, i, i + Len(sep) - 1) = sep}
    IN IF hits = {} THEN 0
       ELSE CHOOSE i \in hits : \A j \in hits : i <= j

\* Python: s.split(sep)[0]
SplitHead(s, sep) ==
    LET i == IndexOf(s, sep)
    IN IF i = 0 THEN s ELSE SubSeq(s, 1, i - 1)

\* Python: sub in s
Contains(s, sub) == IndexOf(s, sub) # 0

---------------------------------------------------------------------------
(* The chord template bank, analyze_song.py lines 13-77 *)

PitchClasses == 0..11

ROOTS ==
    << <<"C">>, <<"C", "#">>, <<"D">>, <<"D", "#">>, <<"E">>, <<"F">>,
       <<"F", "#">>, <<"G">>, <<"G", "#">>, <<"A">>, <<"A", "#">>, <<"B">> >>

\* the six loops that fill TEMPLATES and LABELS, in program order: the
\* assignments v[(i + interval) % 12] = weight, and the label suffix
Families ==
    << [weights |-> << <<0, 100>>, <<4, 90>>, <<7, 85>>, <<11, 25>> >>,
        suffix |-> << >>],
       [weights |-> << <<0, 100>>, <<3, 90>>, <<7, 85>>, <<10, 20>> >>,
        suffix |-> <<"m">>],
       [weights |-> << <<0, 100>>, <<4, 85>>, <<7, 80>>, <<10, 75>> >>,
        suffix |-> <<"7">>],
       [weights |-> << <<0, 100>>, <<4, 85>>, <<7, 80>>, <<11, 70>> >>,
        suffix |-> <<"m", "a", "j", "7">>],
       [weights |-> << <<0, 100>>, <<3, 85>>, <<7, 80>>, <<10, 75>> >>,
        suffix |-> <<"m", "7">>],
       [weights |-> << <<0, 100>>, <<5, 90>>, <<7, 85>> >>,
        suffix |-> <<"s", "u", "s", "4">>] >>

RECURSIVE AssignWeights(_, _, _)
AssignWeights(v, i, ws) ==
    IF ws = <<>> THEN v
    ELSE AssignWeights([v EXCEPT ![(i + ws[1][1]) % 12] = ws[1][2]], i, Tail(ws))

BuildTemplate(family, i) ==
    AssignWeights([k \in PitchClasses |-> 0], i, Families[family].weights)

NumTemplates == Len(Families) * 12

TEMPLATES ==
    [k \in 1..NumTemplates |-> BuildTemplate(((k - 1) \div 12) + 1, (k - 1) % 12)]

LABELS ==
    [k \in 1..NumTemplates |->
        ROOTS[((k - 1) % 12) + 1] \o Families[((k - 1) \div 12) + 1].suffix]

TEMPLATE_MATRIX == TEMPLATES

---------------------------------------------------------------------------
(* estimate_chord_enhanced, analyze_song.py lines 135-189 *)

Dot(t, f) ==
    t[0] * f[0] + t[1] * f[1] + t[2] * f[2] + t[3] * f[3]
    + t[4] * f[4] + t[5] * f[5] + t[6] * f[6] + t[7] * f[7]
    + t[8] * f[8] + t[9] * f[9] + t[10] * f[10] + t[11] * f[11]

\* the square of np.linalg.norm(chroma_frame)
Norm2(f) == Dot(f, f)

\* scores = TEMPLATE_MATRIX @ cf, each score times 100 * norm
Scores(frame) == [k \in 1..NumTemplates |-> Dot(TEMPLATE_MATRIX[k], frame)]

\* the last index that holds the maximum
ArgMaxLast(s) ==
    CHOOSE k \in DOMAIN s :
        /\ \A j \in DOMAIN s : s[j] <= s[k]
        /\ \A j \in DOMAIN s : j > k => s[j] < s[k]

\* np.argmax: the first index that holds the maximum
ArgMax(s) ==
    CHOOSE k \in DOMAIN s :
        /\ \A j \in DOMAIN s : s[j] <= s[k]
        /\ \A j \in DOMAIN s : j < k => s[j] < s[k]

\* best_score in thousandths: (dot / 100) / norm, that is the square root of
\* (100 * dot * dot) \div norm2, the quotient taken in two parts to stay
\* within 32 bits
ScoreMilli(dot, norm2) ==
    ISqrt(100 * ((dot * dot) \div norm2)
          + (100 * ((dot * dot) % norm2)) \div norm2)

\* root_map.get(root_str, 0)
RootMap(root_str) ==
    IF \E i \in PitchClasses : ROOTS[i + 1] = root_str
    THEN CHOOSE i \in PitchClasses : ROOTS[i + 1] = root_str
    ELSE 0

\* a root string that is the first character of the label
RootStrFirstChar(label) == <<label[1]>>

\* best_label.split('m')[0].split('7')[0].split('sus')[0]
RootStr(label) ==
    SplitHead(SplitHead(SplitHead(label, <<"m">>), <<"7">>), <<"s", "u", "s">>)

\* lines 155-170 with the fifth in the bass taken for a first inversion
InversionFifthAsFirst(bass_pitch_class, root_pitch_class) ==
    IF ~IsNone(bass_pitch_class) /\ bass_pitch_class[1] # root_pitch_class
    THEN LET interval == (bass_pitch_class[1] - root_pitch_class) % 12
         IN IF interval \in {3, 4, 7} THEN 1
            ELSE IF interval \in {10, 11} THEN 3
            ELSE 0
    ELSE 0

\* lines 155-170
InversionOf(bass_pitch_class, root_pitch_class) ==
    IF ~IsNone(bass_pitch_class) /\ bass_pitch_class[1] # root_pitch_class
    THEN LET interval == (bass_pitch_class[1] - root_pitch_class) % 12
         IN IF interval \in {3, 4} THEN 1
            ELSE IF interval = 7 THEN 2
            ELSE IF interval \in {10, 11} THEN 3
            ELSE 0
    ELSE 0

\* the best score as it is before line 173
ClampConfidenceUnclamped(score) == score

\* line 173: min(1.0, max(0.0, best_score))
ClampConfidence(score) == Min2(1000, Max2(0, score))

\* lines 175-187
QualityOf(label) ==
    IF Contains(label, <<"m", "a", "j", "7">>) THEN "major7"
    ELSE IF Contains(label, <<"m", "7">>) THEN "minor7"
    ELSE IF Contains(label, <<"7">>) /\ ~Contains(label, <<"m", "a", "j">>)
         THEN "dominant7"
    ELSE IF Contains(label, <<"s", "u", "s">>) THEN "suspended"
    ELSE IF Contains(label, <<"m">>) THEN "minor"
    ELSE "major"

NoChord == <<"N">>

estimate_chord_enhanced(chroma_frame, bass_pitch_class) ==
    IF Norm2(chroma_frame) = 0
    THEN [label |-> NoChord, confidence |-> 0, quality |-> "unknown",
          inversion |-> None]
    ELSE LET scores == Scores(chroma_frame)
             best_idx == ArgMax(scores)
             best_score == ScoreMilli(scores[best_idx], Norm2(chroma_frame))
             best_label == LABELS[best_idx]
             root_pitch_class == RootMap(RootStr(best_label))
         IN [label |-> best_label,
             confidence |-> ClampConfidence(best_score),
             quality |-> QualityOf(best_label),
             inversion |-> Some(InversionOf(bass_pitch_class, root_pitch_class))]

---------------------------------------------------------------------------
(* detect_key, analyze_song.py lines 192-237 *)

Vec(s) == [k \in PitchClasses |-> s[k + 1]]

\* line 200, times 100
major_profile == Vec(<<635, 223, 348, 233, 438, 409, 252, 519, 239, 366, 229, 288>>)
\* line 201, times 100
minor_profile == Vec(<<633, 268, 352, 538, 260, 353, 254, 475, 398, 269, 334, 317>>)

\* np.roll(profile, shift)
Roll(profile, shift) == [k \in PitchClasses |-> profile[(k - shift) % 12]]

Sum12(f) ==
    f[0] + f[1] + f[2] + f[3] + f[4] + f[5] + f[6] + f[7] + f[8] + f[9]
    + f[10] + f[11]

RECURSIVE SumFrames(_)
SumFrames(frames) ==
    IF frames = <<>> THEN [k \in PitchClasses |-> 0]
    ELSE LET rest == SumFrames(Tail(frames))
         IN [k \in PitchClasses |-> frames[1][k] + rest[k]]

\* lines 196-197: np.mean(chroma, axis=1) divided by its sum.  A Pearson
\* correlation does not change when one argument is scaled by a positive
\* number, so the model keeps the column sums; a zero sum (or no frame at
\* all) leaves a constant profile, whose correlations are NaN.
KeyProfile(chroma) == SumFrames(chroma)

\* np.corrcoef(x, p)[0, 1] in thousandths; <<>> stands for NaN
Corrcoef(x, p) ==
    LET cov == 12 * Dot(x, p) - Sum12(x) * Sum12(p)
        vx == 12 * Dot(x, x) - Sum12(x) * Sum12(x)
        vp == 12 * Dot(p, p) - Sum12(p) * Sum12(p)
        den == (ISqrt(vx * 10000) * ISqrt(vp * 100)) \div 1000
        mag == (Abs(cov) * 1000) \div den
    IN IF vx = 0 \/ vp = 0 THEN None
       ELSE Some(IF cov < 0 THEN 0 - mag ELSE mag)

\* NaN taken for the lowest correlation
NanAsLowest(c) == IF IsNone(c) THEN 0 - 1000 ELSE c[1]

\* lines 213-214 and 220-221: NaN is replaced by 0.0
NanToZero(c) == IF IsNone(c) THEN 0 ELSE c[1]

\* lines 208-222: the list of 24 (mode, shift, correlation), in append order
Correlations(key_profile) ==
    [n \in 1..24 |->
        LET shift == (n - 1) \div 2
        IN IF n % 2 = 1
           THEN [mode |-> "major", shift |-> shift,
                 corr |-> NanToZero(Corrcoef(key_profile, Roll(major_profile, shift)))]
           ELSE [mode |-> "minor", shift |-> shift,
                 corr |-> NanToZero(Corrcoef(key_profile, Roll(minor_profile, shift)))]]

\* line 232: max(0.0, min(1.0, (confidence + 1) / 2))
KeyConfidence(corr) == Max2(0, Min2(1000, (corr + 1000) \div 2))

\* line 237, the except branch
KeyFallback == [key |-> ROOTS[1], mode |-> "major", confidence |-> 500]

\* raises: some call inside the try block raised
detect_key(chroma, raises) ==
    IF raises THEN KeyFallback
    ELSE LET correlations == Correlations(KeyProfile(chroma))
             \* max(correlations, key=...): the first entry holding the maximum
             best == correlations[ArgMax([n \in 1..24 |-> correlations[n].corr])]
         IN [key |-> ROOTS[best.shift + 1], mode |-> best.mode,
             confidence |-> KeyConfidence(best.corr)]

---------------------------------------------------------------------------
(* detect_bass_note, analyze_song.py lines 80-132.  The filtering and the  *)
(* FFT are the libraries'; peak is what they find: <<>> when the function  *)
(* returns None before line 129, else <<m>> with m = round(midi_note).     *)

\* line 130: int(round(midi_note)) % 12
PitchClassOf(midi) == midi % 12

detect_bass_note(peak) ==
    IF IsNone(peak) THEN None ELSE Some(PitchClassOf(peak[1]))

\* lines 86-128 for a window of 2205 samples (a beat at time 0: 100 ms from
\* the start of the signal).  The window is <<>> when end_sample <=
\* start_sample, else <<bass_fft>>, the magnitudes that the filter and the
\* FFT leave in the bins of the band.

\* line 102 and lines 105-110: the bin frequencies of the band, in Hz
BandFreqs ==
    <<40, 50, 60, 70, 80, 90, 100, 110, 120, 130, 140, 150, 160, 170, 180,
      190, 200>>

\* line 129 and the round of line 130: round(12 * log2(f / 440) + 69) of
\* each bin frequency
MidiNotes == <<27, 31, 35, 37, 39, 42, 43, 45, 47, 48, 49, 50, 51, 53, 54, 54, 55>>

\* np.max
MaxOf(s) == s[ArgMax(s)]

\* lines 91-127: the peak that reaches line 129, as a MIDI note
BassPeak(window) ==
    IF IsNone(window) THEN None
    ELSE LET bass_fft == window[1]
             peak_idx == ArgMax(bass_fft)
             peak_magnitude == bass_fft[peak_idx]
         IN IF Len(bass_fft) = 0 THEN None
            ELSE IF 10 * peak_magnitude < 3 * MaxOf(bass_fft) THEN None
            ELSE IF BandFreqs[peak_idx] < 30 THEN None
            ELSE Some(MidiNotes[peak_idx])

---------------------------------------------------------------------------
(* Time axis: librosa.frames_to_time with hop 512 at 22050 Hz *)

\* line 583: sr=22050
SampleRate == 22050
\* librosa's default hop_length, written out on line 346
HopLength == 512

\* the time of a frame cut down to whole seconds
FramesToWholeSeconds(frame) == ((frame * HopLength) \div SampleRate) * 1000000

\* microseconds of a frame index
frames_to_time(frame) == (frame * (HopLength * 20000)) \div (SampleRate \div 50)

StrictlyIncreasing(s) == \A i \in 1..Len(s), j \in 1..Len(s) : i < j => s[i] < s[j]

---------------------------------------------------------------------------
(* detect_time_signature, analyze_song.py lines 240-286.  Every test of    *)
(* the function compares ratios of sums of products of the intervals, so   *)
(* the unit of time does not matter and the tests are computed exactly     *)
(* over the integers.                                                      *)

\* np.diff(beat_times)
Diff(beat_times) ==
    [n \in 1..(Len(beat_times) - 1) |-> beat_times[n + 1] - beat_times[n]]

RECURSIVE SumSeq(_)
SumSeq(x) == IF x = <<>> THEN 0 ELSE x[1] + SumSeq(Tail(x))

\* lines 257-262: cv < 0.15, where cv = np.std(x) / np.mean(x) and np.std is
\* the population deviation: var / mean^2 = (n * sum(x^2) - sum(x)^2) / sum(x)^2
CvBelowThreshold(x) ==
    LET n == Len(x)
        s == SumSeq(x)
        q == SumSeq([i \in 1..n |-> x[i] * x[i]])
    IN 10000 * (n * q - s * s) < 225 * s * s

\* np.correlate(x, x, mode='full')[len(autocorr)//2:][lag], lines 270-271
Autocorr(x, lag) == SumSeq([i \in 1..(Len(x) - lag) |-> x[i] * x[i + lag]])

\* np.max(autocorr[lo:hi])
MaxAutocorr(x, lo, hi) ==
    LET values == {Autocorr(x, lag) : lag \in lo..Min2(hi - 1, Len(x) - 1)}
    IN CHOOSE v \in values : \A w \in values : w <= v

\* a > 0.7 * b
Exceeds70(a, b) == 10 * a > 7 * b

\* lines 244 and 286
TimeSigDefault == [time_sig |-> "4/4", confidence |-> 500]

\* lines 262-284 with the 6/8 test ahead of the 3/4 test
TimeSigSixFirst(x) ==
    IF CvBelowThreshold(x)
    THEN [time_sig |-> "4/4", confidence |-> 800]
    ELSE IF Len(x) >= 12 /\ Len(x) > 6
            /\ Exceeds70(Autocorr(x, 6), MaxAutocorr(x, 1, 10))
    THEN [time_sig |-> "6/8", confidence |-> 700]
    ELSE IF Len(x) >= 12 /\ Len(x) > 6
            /\ Exceeds70(Autocorr(x, 3), MaxAutocorr(x, 1, 6))
    THEN [time_sig |-> "3/4", confidence |-> 700]
    ELSE [time_sig |-> "4/4", confidence |-> 600]

\* lines 262-284 with the uniformity test dropped
TimeSigNoCvTest(x) ==
    IF Len(x) >= 12 /\ Len(x) > 6
       /\ Exceeds70(Autocorr(x, 3), MaxAutocorr(x, 1, 6))
    THEN [time_sig |-> "3/4", confidence |-> 700]
    ELSE IF Len(x) >= 12 /\ Len(x) > 6
            /\ Exceeds70(Autocorr(x, 6), MaxAutocorr(x, 1, 10))
    THEN [time_sig |-> "6/8", confidence |-> 700]
    ELSE [time_sig |-> "4/4", confidence |-> 600]

\* lines 262-284, beat_intervals = x
TimeSigOfIntervals(x) ==
    IF CvBelowThreshold(x)
    THEN [time_sig |-> "4/4", confidence |-> 800]
    ELSE IF Len(x) >= 12 /\ Len(x) > 6
            /\ Exceeds70(Autocorr(x, 3), MaxAutocorr(x, 1, 6))
    THEN [time_sig |-> "3/4", confidence |-> 700]
    ELSE IF Len(x) >= 12 /\ Len(x) > 6
            /\ Exceeds70(Autocorr(x, 6), MaxAutocorr(x, 1, 10))
    THEN [time_sig |-> "6/8", confidence |-> 700]
    ELSE [time_sig |-> "4/4", confidence |-> 600]

\* lines 242-286; nothing inside the try block raises on an array of numbers
detect_time_signature(beat_times) ==
    IF Len(beat_times) < 8 THEN TimeSigDefault
    ELSE TimeSigOfIntervals(Diff(beat_times))

---------------------------------------------------------------------------
(* track_tempo, analyze_song.py lines 495-529.  The local tempo of a       *)
(* window is librosa's; tempos holds what it answers for the windows, in   *)
(* BPM, and fails_at the window at which it raises (0: at none).  Tempos   *)
(* are returned in thousandths of a BPM.                                   *)

\* line 495: window_size = 8192
WindowSize == 8192
\* line 499: hop_length = 2048
TempoHop == 2048

\* line 503: len(range(0, len(y_perc) - window_size, hop_length))
NumWindows(n_samples) ==
    IF n_samples - WindowSize <= 0 THEN 0
    ELSE (n_samples - WindowSize + TempoHop - 1) \div TempoHop

\* line 512: start / sr of the k-th window, in microseconds
WindowTime(k) == ((k - 1) * TempoHop * 20000) \div (SampleRate \div 50)

RECURSIVE Insert(_, _)
Insert(v, s) ==
    IF s = <<>> THEN <<v>>
    ELSE IF v <= s[1] THEN <<v>> \o s
    ELSE <<s[1]>> \o Insert(v, Tail(s))

RECURSIVE SortedSeq(_)
SortedSeq(s) == IF s = <<>> THEN <<>> ELSE Insert(s[1], SortedSeq(Tail(s)))

\* line 518: np.median, in thousandths
Median(s) ==
    LET sorted == SortedSeq(s)
        n == Len(s)
    IN IF n % 2 = 1 THEN sorted[(n + 1) \div 2] * 1000
       ELSE ((sorted[n \div 2] + sorted[(n \div 2) + 1]) * 1000) \div 2

\* lines 520-522: 1.0 - tempo_std / (tempo_mean + 1e-10), in thousandths;
\* the deviation of a track of zeros is 0, and 0 / 1e-10 is 0
RawTempoConfidence(s) ==
    LET n == Len(s)
        sum == SumSeq(s)
        q == SumSeq([i \in 1..n |-> s[i] * s[i]])
    IN IF n * q - sum * sum = 0 THEN 1000
       ELSE 1000 - (ISqrt(100 * (n * q - sum * sum)) * 100) \div sum

\* the confidence without the clamp of line 522
TempoConfidenceUnclamped(raw) == raw

\* line 522: max(0.0, min(1.0, ...))
TempoConfidence(raw) == Max2(0, Min2(1000, raw))

\* lines 524-525 and line 529
TempoDefault ==
    [tempo |-> 120000, confidence |-> 500, tempo_track |-> <<>>,
     tempo_times |-> <<>>]

\* lines 497-529
track_tempo(n_samples, tempos, fails_at) ==
    LET count == NumWindows(n_samples)
        tempo_track == [k \in 1..count |-> tempos[k] * 1000]
        tempo_times == [k \in 1..count |-> WindowTime(k)]
    IN IF fails_at \in 1..count THEN TempoDefault
       ELSE IF Len(tempo_track) > 0
       THEN [tempo |-> Median([k \in 1..count |-> tempos[k]]),
             confidence |->
                 TempoConfidence(RawTempoConfidence([k \in 1..count |-> tempos[k]])),
             tempo_track |-> tempo_track,
             tempo_times |-> tempo_times]
       ELSE TempoDefault

\* analyze, lines 601-604 and 710-714: what the beat grid reports about the
\* tempo.  global_tempo is what librosa.beat.beat_track answers on the whole
\* signal (thousandths of a BPM); line 602 assigns it to the variable that
\* line 601 had set to the median of the track.
BeatGridTempo(n_samples, tempos, fails_at, global_tempo) ==
    LET tracked == track_tempo(n_samples, tempos, fails_at)
    IN [tempo_bpm |-> global_tempo,
        tempo_confidence |-> tracked.confidence,
        tempo_track |-> tracked.tempo_track,
        tempo_track_times |-> tracked.tempo_times]

---------------------------------------------------------------------------
(* detect_downbeats, analyze_song.py lines 289-314.  A time signature is a
   string, here the sequence of its characters. *)

Digits == <<"0", "1", "2", "3", "4", "5", "6", "7", "8", "9">>

IsDigit(c) == \E d \in 1..10 : Digits[d] = c

DigitValue(c) == (CHOOSE d \in 1..10 : Digits[d] = c) - 1

RECURSIVE DecimalValue(_)
DecimalValue(s) ==
    IF s = <<>> THEN 0
    ELSE 10 * DecimalValue(SubSeq(s, 1, Len(s) - 1)) + DigitValue(s[Len(s)])

\* Python: int(s) for a string without sign or blanks; None when int raises
\* ValueError
ParseInt(s) ==
    IF s # <<>> /\ \A n \in 1..Len(s) : IsDigit(s[n])
    THEN Some(DecimalValue(s))
    ELSE None

\* lines 293-296
Numerator(time_sig) ==
    IF Contains(time_sig, <<"/">>)
    THEN ParseInt(SplitHead(time_sig, <<"/">>))
    ELSE Some(4)

\* the elements of s at the indices range(0, len(s), step), step > 0
EveryNth(s, step) ==
    [k \in 1..((Len(s) + step - 1) \div step) |-> s[(k - 1) * step + 1]]

\* line 314
DownbeatFallback(beat_times) ==
    IF Len(beat_times) >= 4 THEN EveryNth(beat_times, 4) ELSE <<>>

\* raises: librosa.onset.onset_strength raised (line 299).  int() raises on a
\* numerator that is no number, range() on a step of 0.
detect_downbeats(beat_times, time_sig, raises) ==
    LET numerator == Numerator(time_sig)
    IN IF IsNone(numerator) \/ raises THEN DownbeatFallback(beat_times)
       ELSE IF numerator[1] = 0 THEN DownbeatFallback(beat_times)
       ELSE EveryNth(beat_times, numerator[1])

---------------------------------------------------------------------------
(* calculate_beat_strength, analyze_song.py lines 472-492.  The onset
   envelope is a sequence of levels, one per frame; librosa builds it from a
   half-wave rectified spectral difference, so that no level is negative.
   Strengths are in thousandths. *)

\* line 476
OnsetTimes(onset_strength) ==
    [n \in 1..Len(onset_strength) |-> frames_to_time(n - 1)]

\* the largest element of a non-empty sequence (np.max)
MaxLevelOf(s) == CHOOSE v \in {s[n] : n \in 1..Len(s)} : \A n \in 1..Len(s) : s[n] <= v

\* a strength that is not divided by the largest one
NormalizedRaw(strength, max_strength) == 1000 * strength

\* lines 485-486: strength / (max_strength + 1e-10)
Normalized(strength, max_strength) ==
    IF max_strength = 0 THEN 0 ELSE (1000 * strength) \div max_strength

\* line 492
BeatStrengthFallback(beat_times) == [k \in 1..Len(beat_times) |-> 500]

\* raises: librosa.onset.onset_strength raised (line 475).  np.argmin raises
\* on an empty envelope, inside the loop only.
calculate_beat_strength(onset_strength, beat_times, raises) ==
    IF raises \/ (onset_strength = <<>> /\ beat_times # <<>>)
    THEN BeatStrengthFallback(beat_times)
    ELSE [k \in 1..Len(beat_times) |->
             LET frame_idx == ArgMax([n \in 1..Len(onset_strength) |->
                                  0 - Abs(OnsetTimes(onset_strength)[n]
                                            - beat_times[k])])
             IN Normalized(onset_strength[frame_idx], MaxLevelOf(onset_strength))]

---------------------------------------------------------------------------
(* extract_spectral_features, analyze_song.py lines 407-432.  f holds the
   four sequences librosa computed. *)

\* Python: s[:n], n >= 0
Take(s, n) == SubSeq(s, 1, Min2(n, Len(s)))

NoSpectralFeatures ==
    [centroid |-> <<>>, rolloff |-> <<>>, bandwidth |-> <<>>,
     zero_crossing_rate |-> <<>>, timestamps |-> <<>>]

extract_spectral_features(f, frame_times, raises) ==
    IF raises THEN NoSpectralFeatures
    ELSE LET min_len == Min2(Len(f.centroid), Len(frame_times))
         IN [centroid |-> Take(f.centroid, min_len),
             rolloff |-> Take(f.rolloff, min_len),
             bandwidth |-> Take(f.bandwidth, min_len),
             zero_crossing_rate |-> Take(f.zero_crossing_rate, min_len),
             timestamps |-> Take(frame_times, min_len)]

---------------------------------------------------------------------------
(* detect_drums, analyze_song.py lines 317-404.  The band-pass filters and *)
(* the onset detector are the libraries'; d holds what they give:          *)
(*   kick_set, snare_set : the onset times (sequences, microseconds)       *)
(*   kick_energy, snare_energy : the mean absolute amplitude of the        *)
(*       filtered signal around a beat, in thousandths                     *)
(*   n_samples : len(kick_sig) = len(snare_sig)                            *)

\* line 363: tol = 0.05
tol == 50000

\* np.min(np.abs(onset_set - t)), for a non-empty onset_set
MinDist(onset_set, t) ==
    LET ds == {Abs(onset_set[j] - t) : j \in 1..Len(onset_set)}
    IN CHOOSE d \in ds : \A e \in ds : d <= e

\* lines 367-368
HasOnset(onset_set, t) == Len(onset_set) > 0 /\ MinDist(onset_set, t) < tol

\* int(t * sr)
SampleIndex(t) == (t * (SampleRate \div 50)) \div 20000

\* a confidence whose energy factor is not held at 1
DrumConfidenceUnclamped(has, onset_set, t, energy, n_samples) ==
    IF has /\ SampleIndex(t) < n_samples
    THEN Max2(0, ((((tol - MinDist(onset_set, t)) * 1000) \div tol)
                   * (energy * 10)) \div 1000)
    ELSE 0

\* lines 371-387
DrumConfidence(has, onset_set, t, energy, n_samples) ==
    IF has /\ SampleIndex(t) < n_samples
    THEN Max2(0, ((((tol - MinDist(onset_set, t)) * 1000) \div tol)
                   * Min2(1000, energy * 10)) \div 1000)
    ELSE 0

\* lines 366-402, one iteration of the loop
DrumEntry(t, d) ==
    LET has_kick == HasOnset(d.kick_set, t)
        has_snare == HasOnset(d.snare_set, t)
    IN [time |-> t,
        drums |-> (IF has_kick THEN <<"kick">> ELSE <<>>)
                  \o (IF has_snare THEN <<"snare">> ELSE <<>>),
        hasKick |-> has_kick,
        hasSnare |-> has_snare,
        kickConfidence |->
            DrumConfidence(has_kick, d.kick_set, t, d.kick_energy, d.n_samples),
        snareConfidence |->
            DrumConfidence(has_snare, d.snare_set, t, d.snare_energy, d.n_samples)]

\* a grid that keeps only the beats on which a drum was found
RECURSIVE DrumGridOnlyHits(_, _)
DrumGridOnlyHits(beat_times, d) ==
    IF beat_times = <<>> THEN <<>>
    ELSE LET e == DrumEntry(beat_times[1], d)
         IN (IF e.drums = <<>> THEN <<>> ELSE <<e>>)
            \o DrumGridOnlyHits(Tail(beat_times), d)

\* lines 364-404
detect_drums(beat_times, d) ==
    [i \in 1..Len(beat_times) |-> DrumEntry(beat_times[i], d)]

---------------------------------------------------------------------------
(* What the environment gives a run: the file named on the command line,   *)
(* and the answers of the libraries (librosa, scipy, numpy, json, the OS). *)
(* These are functions of the input: the first run draws each answer and   *)
(* records it in env, the re-run on the same input gets the same answers.  *)

Frame(S, w) == [k \in PitchClasses |-> IF k \in S THEN w ELSE 0]

\* kinds of input file: decodable, missing, unsupported format
Files == {"song", "missing", "unsupported"}

\* beat frames as librosa.beat.beat_track returns them: strictly increasing
BeatFrameSeqs ==
    {s \in UNION {[1..n -> 0..MaxFrame] : n \in 0..(MaxFrame + 1)} :
        StrictlyIncreasing(s)}

\* chroma frames of the pipeline runs: silence and a C major triad
PipelineFrames == {Frame({}, 0), Frame({0, 4, 7}, 1)}

\* the blended chroma matrix, transposed: one frame per frame index; the
\* pipeline runs on signals that alternate between two of the frames above
ChromaMatrices ==
    {[f \in 0..MaxFrame |-> IF f % 2 = 0 THEN a ELSE b] :
        a \in PipelineFrames, b \in PipelineFrames}

\* bass peaks of the pipeline runs: none, or G2 (MIDI note 43)
BassPeaks == {None, Some(43)}

\* filtered drum signals of the pipeline runs: no onset at all, or a kick
\* 10 ms after frame 0 and a snare 40 ms after the last frame
DrumSignals ==
    {[kick_set |-> <<>>, snare_set |-> <<>>, kick_energy |-> 0,
      snare_energy |-> 0, n_samples |-> (MaxFrame + 1) * HopLength],
     [kick_set |-> <<10000>>, snare_set |-> <<frames_to_time(MaxFrame) + 40000>>,
      kick_energy |-> 200, snare_energy |-> 30,
      n_samples |-> (MaxFrame + 1) * HopLength]}

EmptyEnv ==
    [raised |-> {}, beat_frames |-> None, chroma |-> None, peaks |-> <<>>,
     drums |-> None]

\* the set an answer is drawn from
Draw(field, S) == IF run = 1 THEN S ELSE {env[field][1]}

\* a point of the program where a library call may raise
P(name) == <<name, 0>>

\* whether the call at point p raises, given the calls that raised so far
FaultChoices(p, raised) ==
    IF run = 1
    THEN IF Cardinality(raised) < MaxFaults THEN BOOLEAN ELSE {FALSE}
    ELSE {p \in env.raised}

Mark(p, r, raised) == IF r THEN raised \cup {p} ELSE raised

Record(raised) == IF run = 1 THEN [env EXCEPT !.raised = raised] ELSE env

---------------------------------------------------------------------------
(* Notifications: print(json.dumps(...), flush=True) *)

\* the values of lines 581-694, but 'finalizing' below 'drum_detection'
ProgressValueRegressing(stage) ==
    CASE stage = "loading" -> 5
      [] stage = "loaded" -> 10
      [] stage = "hpss" -> 15
      [] stage = "hpss_complete" -> 25
      [] stage = "beat_tracking" -> 30
      [] stage = "beats_detected" -> 40
      [] stage = "rhythm_analysis" -> 45
      [] stage = "chroma_extraction" -> 50
      [] stage = "key_detected" -> 55
      [] stage = "feature_extraction" -> 60
      [] stage = "onset_detection" -> 65
      [] stage = "harmonic_analysis" -> 70
      [] stage = "tonnetz" -> 75
      [] stage = "chord_detection" -> 80
      [] stage = "drum_detection" -> 85
      [] stage = "finalizing" -> 80

\* the 'value' printed with each 'stage', lines 581-694
ProgressValue(stage) ==
    CASE stage = "loading" -> 5
      [] stage = "loaded" -> 10
      [] stage = "hpss" -> 15
      [] stage = "hpss_complete" -> 25
      [] stage = "beat_tracking" -> 30
      [] stage = "beats_detected" -> 40
      [] stage = "rhythm_analysis" -> 45
      [] stage = "chroma_extraction" -> 50
      [] stage = "key_detected" -> 55
      [] stage = "feature_extraction" -> 60
      [] stage = "onset_detection" -> 65
      [] stage = "harmonic_analysis" -> 70
      [] stage = "tonnetz" -> 75
      [] stage = "chord_detection" -> 80
      [] stage = "drum_detection" -> 85
      [] stage = "finalizing" -> 90

Progress(stage) ==
    [status |-> "progress", value |-> ProgressValue(stage), stage |-> stage]

Complete(path) == [status |-> "complete", path |-> path]

\* {'error': ...}: the notification has no 'status' key
Error(msg) == [error |-> msg]

\* what a reader of the output takes a notification for
Kind(n) == IF "status" \in DOMAIN n THEN n.status ELSE "error"

\* lines 586-588
LoadErrorMsg(file) ==
    IF file = "unsupported" THEN "Failed to load audio file, with format hint"
    ELSE "Failed to load audio file"

---------------------------------------------------------------------------
(* The state of analyze *)

InitLoc ==
    [raised |-> {},              \* the calls that raised in this run
     y |-> "unset", y_harm |-> "unset", y_perc |-> "unset",
     tempo |-> "unset", tempo_confidence |-> "unset", tempo_track |-> "unset",
     beat_times |-> <<>>,
     time_sig |-> "unset", downbeats |-> "unset", beat_strengths |-> "unset",
     chroma |-> <<>>, key |-> None,
     spectral_features |-> "unset", onsets |-> "unset",
     harmonic_content |-> "unset", tonnetz_features |-> "unset",
     beat_aligned_chroma |-> <<>>, i |-> 0, last_label |-> None,
     raw_events |-> <<>>, drum_grid |-> None, result |-> None]

NoFile == [state |-> "none", path |-> "", size |-> 0, disk |-> 0]

NoCall == [op |-> "none"]

\* tempfile picks a fresh random name at every call
TmpName(r) == IF r = 1 THEN "tmp_a.json" ELSE "tmp_b.json"

\* the result of a stage whose body is wrapped in try/except: the computed
\* value, or the default of its except branch
Absorbed(r) == IF r THEN "default" ELSE "computed"

\* the outer handler, lines 747-750
Abort(out1, raised) ==
    /\ out' = Append(out1, Error("exception"))
    /\ exit_status' = Some(1)
    /\ pc' = "exited"
    /\ env' = Record(raised)
    /\ loc' = [loc EXCEPT !.raised = raised]

---------------------------------------------------------------------------
(* __main__, lines 753-757 *)

Main ==
    /\ pc = "main"
    /\ IF argv = <<>>
       THEN /\ out' = Append(out, Error("No file provided"))
            /\ exit_status' = Some(1)
            /\ pc' = "exited"
       ELSE /\ pc' = "loading"
            /\ UNCHANGED <<out, exit_status>>
    /\ UNCHANGED <<argv, run, loc, tmp, env, first, host, fn>>

---------------------------------------------------------------------------
(* analyze, lines 577-750, one action per stage *)

\* lines 580-592
StageLoad ==
    /\ pc = "loading"
    /\ LET out1 == Append(out, Progress("loading"))
       IN IF argv[1] # "song"
          THEN \* librosa.load raised: lines 584-590, print the error and return
               /\ out' = Append(out1, Error(LoadErrorMsg(argv[1])))
               /\ pc' = "exited"
               /\ exit_status' = Some(0)
               /\ loc' = [loc EXCEPT !.raised = {P("load")}]
          ELSE /\ out' = Append(out1, Progress("loaded"))
               /\ pc' = "hpss"
               /\ loc' = [loc EXCEPT !.y = "signal"]
               /\ UNCHANGED exit_status
    /\ UNCHANGED <<argv, run, tmp, env, first, host, fn>>

\* lines 594-597
StageHPSS ==
    /\ pc = "hpss"
    /\ LET out1 == Append(out, Progress("hpss"))
       IN \E r \in FaultChoices(P("hpss"), loc.raised) :
            IF r
            THEN Abort(out1, Mark(P("hpss"), r, loc.raised))
            ELSE /\ out' = Append(out1, Progress("hpss_complete"))
                 /\ loc' = [loc EXCEPT !.y_harm = "harmonic",
                                       !.y_perc = "percussive"]
                 /\ pc' = "beat_tracking"
                 /\ UNCHANGED <<exit_status, env>>
    /\ UNCHANGED <<argv, run, tmp, first, host, fn>>

\* lines 599-606
StageBeatTracking ==
    /\ pc = "beat_tracking"
    /\ LET out1 == Append(out, Progress("beat_tracking"))
       IN \E r1 \in FaultChoices(P("track_tempo"), loc.raised) :
          LET raised1 == Mark(P("track_tempo"), r1, loc.raised)
          IN \E r2 \in FaultChoices(P("beat_track"), raised1) :
               IF r2
               THEN Abort(out1, Mark(P("beat_track"), r2, raised1))
               ELSE \E beat_frames \in Draw("beat_frames", BeatFrameSeqs) :
                    /\ out' = Append(out1, Progress("beats_detected"))
                    /\ loc' = [loc EXCEPT
                          !.raised = raised1,
                          \* line 601, overwritten by line 602
                          !.tempo = "beat_track",
                          !.tempo_confidence = Absorbed(r1),
                          !.tempo_track = Absorbed(r1),
                          !.beat_times =
                              [n \in 1..Len(beat_frames) |->
                                  frames_to_time(beat_frames[n])]]
                    /\ env' = [Record(raised1) EXCEPT
                                  !.beat_frames = Some(beat_frames)]
                    /\ pc' = "rhythm"
                    /\ UNCHANGED exit_status
    /\ UNCHANGED <<argv, run, tmp, first, host, fn>>

\* lines 608-612: the three functions catch every exception themselves
StageRhythm ==
    /\ pc = "rhythm"
    /\ \E r1 \in FaultChoices(P("detect_time_signature"), loc.raised) :
       LET raised1 == Mark(P("detect_time_signature"), r1, loc.raised)
       IN \E r2 \in FaultChoices(P("detect_downbeats"), raised1) :
          LET raised2 == Mark(P("detect_downbeats"), r2, raised1)
          IN \E r3 \in FaultChoices(P("calculate_beat_strength"), raised2) :
             LET raised3 == Mark(P("calculate_beat_strength"), r3, raised2)
             IN /\ loc' = [loc EXCEPT !.raised = raised3,
                                      !.time_sig = IF r1 THEN TimeSigDefault
                                                  ELSE detect_time_signature(
                                                           loc.beat_times),
                                      !.downbeats = Absorbed(r2),
                                      !.beat_strengths = Absorbed(r3)]
                /\ env' = Record(raised3)
    /\ out' = Append(out, Progress("rhythm_analysis"))
    /\ pc' = "chroma"
    /\ UNCHANGED <<argv, run, exit_status, tmp, first, host, fn>>

\* lines 614-626
StageChromaKey ==
    /\ pc = "chroma"
    /\ LET out1 == Append(out, Progress("chroma_extraction"))
       IN \E r1 \in FaultChoices(P("chroma"), loc.raised) :
            IF r1
            THEN Abort(out1, Mark(P("chroma"), r1, loc.raised))
            ELSE \E chroma \in Draw("chroma", ChromaMatrices) :
                 \E r2 \in FaultChoices(P("detect_key"), loc.raised) :
                 LET raised2 == Mark(P("detect_key"), r2, loc.raised)
                     chroma_transposed == [n \in 1..(MaxFrame + 1) |-> chroma[n - 1]]
                 IN /\ out' = Append(out1, Progress("key_detected"))
                    /\ loc' = [loc EXCEPT
                          !.raised = raised2,
                          !.chroma = chroma_transposed,
                          !.key = Some(detect_key(chroma_transposed, r2))]
                    /\ env' = [Record(raised2) EXCEPT !.chroma = Some(chroma)]
                    /\ pc' = "features"
                    /\ UNCHANGED exit_status
    /\ UNCHANGED <<argv, run, tmp, first, host, fn>>

\* lines 628-636
StageFeatures ==
    /\ pc = "features"
    /\ LET out1 == Append(out, Progress("feature_extraction"))
       IN \E r1 \in FaultChoices(P("mfcc"), loc.raised) :
            IF r1
            THEN Abort(out1, Mark(P("mfcc"), r1, loc.raised))
            ELSE \E r2 \in FaultChoices(P("extract_spectral_features"), loc.raised) :
                 LET raised2 == Mark(P("extract_spectral_features"), r2, loc.raised)
                 IN /\ out' = out1
                    /\ loc' = [loc EXCEPT !.raised = raised2,
                                          !.spectral_features = Absorbed(r2)]
                    /\ env' = Record(raised2)
                    /\ pc' = "onsets"
                    /\ UNCHANGED exit_status
    /\ UNCHANGED <<argv, run, tmp, first, host, fn>>

\* lines 638-640
StageOnsets ==
    /\ pc = "onsets"
    /\ \E r \in FaultChoices(P("extract_onsets"), loc.raised) :
       LET raised1 == Mark(P("extract_onsets"), r, loc.raised)
       IN /\ loc' = [loc EXCEPT !.raised = raised1, !.onsets = Absorbed(r)]
          /\ env' = Record(raised1)
    /\ out' = Append(out, Progress("onset_detection"))
    /\ pc' = "harmonic"
    /\ UNCHANGED <<argv, run, exit_status, tmp, first, host, fn>>

\* lines 642-644
StageHarmonic ==
    /\ pc = "harmonic"
    /\ \E r \in FaultChoices(P("analyze_harmonic_content"), loc.raised) :
       LET raised1 == Mark(P("analyze_harmonic_content"), r, loc.raised)
       IN /\ loc' = [loc EXCEPT !.raised = raised1,
                                !.harmonic_content = Absorbed(r)]
          /\ env' = Record(raised1)
    /\ out' = Append(out, Progress("harmonic_analysis"))
    /\ pc' = "tonnetz"
    /\ UNCHANGED <<argv, run, exit_status, tmp, first, host, fn>>

\* lines 646-648
StageTonnetz ==
    /\ pc = "tonnetz"
    /\ \E r \in FaultChoices(P("extract_tonnetz"), loc.raised) :
       LET raised1 == Mark(P("extract_tonnetz"), r, loc.raised)
       IN /\ loc' = [loc EXCEPT !.raised = raised1,
                                !.tonnetz_features = Absorbed(r)]
          /\ env' = Record(raised1)
    /\ out' = Append(out, Progress("tonnetz"))
    /\ pc' = "chords"
    /\ UNCHANGED <<argv, run, exit_status, tmp, first, host, fn>>

---------------------------------------------------------------------------
(* Stage 11, the chord loop, lines 650-688 *)

\* line 633: times = librosa.frames_to_time(np.arange(len(chroma_transposed)))
FrameTimes(chroma_transposed) ==
    [n \in 1..Len(chroma_transposed) |-> frames_to_time(n - 1)]

\* line 657: np.argmin(np.abs(times - beat_time)), as an index from 1
NearestFrame(times, beat_time) ==
    ArgMax([n \in 1..Len(times) |-> 0 - Abs(times[n] - beat_time)])

\* lines 654-659
BeatAlignedChroma(chroma_transposed, beat_times) ==
    [n \in 1..Len(beat_times) |->
        chroma_transposed[NearestFrame(FrameTimes(chroma_transposed), beat_times[n])]]

\* the inversion as estimate_chord_enhanced returned it
EventInversionRaw(inversion) == inversion

\* line 684: int(inversion) if inversion is not None else 0
EventInversion(inversion) == IF IsNone(inversion) THEN Some(0) ELSE inversion

\* lines 679-688
ChordEvent(timestamp, c, bass_pitch_class) ==
    [timestamp |-> timestamp,
     event_type |-> "chord_candidate",
     chord |-> c.label,
     chord_quality |-> c.quality,
     chord_inversion |-> EventInversion(c.inversion),
     bass_pitch_class |-> bass_pitch_class,
     confidence |-> c.confidence,
     source |-> "PY_Enhanced_Bass"]

\* lines 666-673 and 679-688: the chord and the event of one beat, given the
\* bass peak found around the beat
BeatChord(chroma_frame, timestamp, peak) ==
    LET bass_pitch_class == detect_bass_note(peak)
        c == estimate_chord_enhanced(chroma_frame, bass_pitch_class)
    IN [chord |-> c, event |-> ChordEvent(timestamp, c, bass_pitch_class)]

\* every repeat of the last label skipped, whatever its confidence
SuppressedAnyRepeat(c, last_label) == last_label = Some(c.label)

\* a beat is skipped on its low confidence alone
SuppressedLowConfidence(c, last_label) == c.confidence < 700

\* line 675: the event of this beat is skipped
Suppressed(c, last_label) == last_label = Some(c.label) /\ c.confidence < 700

\* where the loop of line 662 goes after i iterations over n frames
AfterBeat(i, n) == IF i < n THEN "chord_loop" ELSE "drums"

\* lines 651-661
StageChords ==
    /\ pc = "chords"
    /\ out' = Append(out, Progress("chord_detection"))
    /\ LET bac == BeatAlignedChroma(loc.chroma, loc.beat_times)
       IN /\ loc' = [loc EXCEPT !.raw_events = <<>>,
                                !.beat_aligned_chroma = bac,
                                !.last_label = None,
                                !.i = 0]
          /\ pc' = AfterBeat(0, Len(bac))
    /\ UNCHANGED <<argv, run, exit_status, tmp, env, first, host, fn>>

\* lines 662-688, one iteration
ChordBeat ==
    /\ pc = "chord_loop"
    /\ loc.i < Len(loc.beat_aligned_chroma)
    /\ loc.i < Len(loc.beat_times)
    /\ LET n == loc.i + 1
           pb == <<"detect_bass_note", n>>
           pe == <<"estimate_chord_enhanced", n>>
       IN \E r1 \in FaultChoices(pb, loc.raised) :
            IF r1
            THEN Abort(out, Mark(pb, r1, loc.raised))
            ELSE \E peak \in (IF run = 1 THEN BassPeaks ELSE {env.peaks[n]}) :
                 \E r2 \in FaultChoices(pe, loc.raised) :
                   IF r2
                   THEN /\ out' = Append(out, Error("exception"))
                        /\ exit_status' = Some(1)
                        /\ pc' = "exited"
                        /\ loc' = [loc EXCEPT !.raised = Mark(pe, r2, loc.raised)]
                        /\ env' = [Record(Mark(pe, r2, loc.raised)) EXCEPT
                                      !.peaks = IF run = 1 THEN Append(@, peak) ELSE @]
                   ELSE LET b == BeatChord(loc.beat_aligned_chroma[n],
                                           loc.beat_times[n], peak)
                        IN /\ loc' =
                                IF Suppressed(b.chord, loc.last_label)
                                THEN [loc EXCEPT !.i = n]
                                ELSE [loc EXCEPT
                                        !.i = n,
                                        !.last_label = Some(b.chord.label),
                                        !.raw_events = Append(@, b.event)]
                           /\ env' = [env EXCEPT
                                        !.peaks = IF run = 1 THEN Append(@, peak) ELSE @]
                           /\ pc' = AfterBeat(n, Len(loc.beat_aligned_chroma))
                           /\ UNCHANGED <<out, exit_status>>
    /\ UNCHANGED <<argv, run, tmp, first, host, fn>>

---------------------------------------------------------------------------
(* Stage 12 and the assembly, lines 690-742 *)

StageDrums ==
    /\ pc = "drums"
    /\ LET out1 == Append(out, Progress("drum_detection"))
       IN \E r \in FaultChoices(P("detect_drums"), loc.raised) :
            IF r
            THEN Abort(out1, Mark(P("detect_drums"), r, loc.raised))
            ELSE \E d \in Draw("drums", DrumSignals) :
                 /\ out' = Append(out1, Progress("finalizing"))
                 /\ loc' = [loc EXCEPT
                               !.drum_grid = Some(detect_drums(loc.beat_times, d))]
                 /\ env' = [env EXCEPT !.drums = Some(d)]
                 /\ pc' = "assemble"
                 /\ UNCHANGED exit_status
    /\ UNCHANGED <<argv, run, tmp, first, host, fn>>

\* a hash that would depend on the run
FileHashOfTmpName(nonce) == nonce

\* line 698
FileHash(nonce) == "py_enhanced_v1"

\* lines 697-742
BuildResult(l, nonce) ==
    [fileHash |-> FileHash(nonce),
     metadata |->
        [sample_rate |-> SampleRate,
         detected_key |-> l.key[1].key,
         detected_mode |-> l.key[1].mode,
         key_confidence |-> l.key[1].confidence,
         time_signature |-> l.time_sig.time_sig,
         time_signature_confidence |-> l.time_sig.confidence],
     beat_grid |->
        [tempo_bpm |-> l.tempo,
         tempo_confidence |-> l.tempo_confidence,
         tempo_track |-> l.tempo_track,
         beat_timestamps |-> l.beat_times,
         beat_strengths |-> l.beat_strengths,
         downbeat_timestamps |-> l.downbeats,
         time_signature |-> l.time_sig.time_sig,
         drum_grid |-> l.drum_grid[1]],
     events |-> l.raw_events,
     chroma_frames |->
        [n \in 1..Len(l.chroma) |->
            [timestamp |-> frames_to_time(n - 1), chroma |-> l.chroma[n]]],
     spectral_features |-> l.spectral_features,
     onsets |-> l.onsets,
     harmonic_content |-> l.harmonic_content,
     tonnetz_features |-> l.tonnetz_features]

---------------------------------------------------------------------------
(* Persistence and the completion notification, lines 744-746.  The file   *)
(* object is buffered (the default of NamedTemporaryFile): what json.dump  *)
(* writes reaches the file in whole buffers, the rest when the file is     *)
(* flushed or closed.  Sizes are in chunks of the serialised result.       *)

ResultSize(result) ==
    1 + Len(result.beat_grid.beat_timestamps) + Len(result.chroma_frames)

\* what has reached the file once n chunks were written to the file object
Flushed(n) == (n \div BufferChunks) * BufferChunks

\* line 697-746: build the result, create the file, json.dump, print complete
StagePersist ==
    /\ pc = "assemble"
    /\ \E r1 \in FaultChoices(P("build_result"), loc.raised) :
         IF r1
         THEN Abort(out, Mark(P("build_result"), r1, loc.raised)) /\ UNCHANGED tmp
         ELSE \E r2 \in FaultChoices(P("NamedTemporaryFile"), loc.raised) :
              LET result == BuildResult(loc, TmpName(run))
                  size == ResultSize(result)
                  built == [loc EXCEPT !.result = Some(result)]
              IN IF r2
                 THEN /\ Abort(out, Mark(P("NamedTemporaryFile"), r2, loc.raised))
                      /\ UNCHANGED tmp
                 ELSE \E r3 \in FaultChoices(P("json.dump"), loc.raised) :
                      IF r3
                      THEN \* json.dump raised on its last chunk; leaving the
                           \* with block closes the file, then the handler runs
                           /\ out' = Append(out, Error("exception"))
                           /\ exit_status' = Some(1)
                           /\ pc' = "exited"
                           /\ env' = Record(Mark(P("json.dump"), r3, loc.raised))
                           /\ loc' = [built EXCEPT
                                         !.raised = Mark(P("json.dump"), r3, loc.raised)]
                           /\ tmp' = [state |-> "closed", path |-> TmpName(run),
                                      size |-> size, disk |-> size - 1]
                      ELSE /\ out' = Append(out, Complete(TmpName(run)))
                           /\ loc' = built
                           /\ tmp' = [state |-> "open", path |-> TmpName(run),
                                      size |-> size, disk |-> Flushed(size)]
                           /\ pc' = "closing"
                           /\ UNCHANGED <<exit_status, env>>
    /\ UNCHANGED <<argv, run, first, host, fn>>

\* leaving the with block of line 744: the file is flushed and closed
StageClose ==
    /\ pc = "closing"
    /\ \E r \in FaultChoices(P("close"), loc.raised) :
         IF r
         THEN \* the flush failed (disk full): the handler of line 747 runs
              /\ Abort(out, Mark(P("close"), r, loc.raised))
              /\ tmp' = [tmp EXCEPT !.state = "closed"]
         ELSE /\ tmp' = [tmp EXCEPT !.state = "closed", !.disk = tmp.size]
              /\ pc' = "exited"
              /\ exit_status' = Some(0)
              /\ UNCHANGED <<out, loc, env>>
    /\ UNCHANGED <<argv, run, first, host, fn>>

\* the host application reads the file named by the completion notification
HostRead ==
    /\ IsNone(host)
    /\ \E n \in 1..Len(out) : Kind(out[n]) = "complete"
    /\ host' = Some([path |-> tmp.path, read |-> tmp.disk, size |-> tmp.size])
    /\ UNCHANGED <<argv, run, pc, out, exit_status, loc, tmp, env, first, fn>>

\* the same command line is run again
Rerun ==
    /\ pc = "exited"
    /\ run = 1
    /\ run' = 2
    /\ first' = Some([result |-> loc.result, out |-> out, exit_status |-> exit_status])
    /\ pc' = "main"
    /\ out' = <<>>
    /\ exit_status' = None
    /\ loc' = InitLoc
    /\ tmp' = NoFile
    /\ host' = None
    /\ UNCHANGED <<argv, env, fn>>

Init ==
    /\ argv \in {<<>>} \cup {<<f>> : f \in Files}
    /\ run = 1
    /\ pc = "main"
    /\ out = <<>>
    /\ exit_status = None
    /\ loc = InitLoc
    /\ tmp = NoFile
    /\ env = EmptyEnv
    /\ first = None
    /\ host = None
    /\ fn = NoCall

Next ==
    \/ Main
    \/ StageLoad
    \/ StageHPSS
    \/ StageBeatTracking
    \/ StageRhythm
    \/ StageChromaKey
    \/ StageFeatures
    \/ StageOnsets
    \/ StageHarmonic
    \/ StageTonnetz
    \/ StageChords
    \/ ChordBeat
    \/ StageDrums
    \/ StagePersist
    \/ StageClose
    \/ HostRead

Spec == Init /\ [][Next]_vars

\* two invocations on the same input, one after the other
NextRerun == Next \/ Rerun

SpecRerun == Init /\ [][NextRerun]_vars

---------------------------------------------------------------------------
(* The functions of the pipeline applied on their own: Init draws the      *)
(* argument, the action applies the function.                              *)

Supports == {S \in SUBSET PitchClasses : Cardinality(S) <= MaxNotes}

\* chroma frames with at most MaxNotes sounding pitch classes, each with an
\* energy in 1..MaxLevel
ChordFrames ==
    UNION {{[k \in PitchClasses |-> IF k \in S THEN g[k] ELSE 0] :
                g \in [S -> 1..MaxLevel]} : S \in Supports}

\* bass peaks: none, or a note of the octave C2..B2 (MIDI 36..47, 65-123 Hz)
BassNotes == {None} \cup {Some(m) : m \in 36..47}

\* chroma matrices (transposed) given to detect_key: no frame, one frame, or
\* two frames of the pipeline's
KeyMatrices ==
    {<<>>} \cup {<<f>> : f \in ChordFrames}
    \cup {<<a, b>> : a \in PipelineFrames, b \in PipelineFrames}

\* beat intervals: short, long, and slightly longer than long
IntervalValues == {1, 10, 11}

\* repeating patterns of beat intervals
IntervalPatterns ==
    UNION {[1..p -> IntervalValues] : p \in 1..PatternLen}

\* the first n beat times of a sequence that starts at 0 and repeats pattern
BeatTimesOf(pattern, n) ==
    [k \in 1..n |->
        SumSeq([i \in 1..(k - 1) |-> pattern[((i - 1) % Len(pattern)) + 1]])]

\* beat sequences given to detect_time_signature
BeatSequences ==
    {BeatTimesOf(pattern, n) : pattern \in IntervalPatterns, n \in 0..MaxBeats}

\* band spectra with at most MaxNotes bins that hold energy, each with a
\* magnitude in 1..MaxLevel
BandSpectra ==
    UNION {{[n \in 1..Len(BandFreqs) |-> IF n \in S THEN g[n] ELSE 0] :
                g \in [S -> 1..MaxLevel]} :
           S \in {T \in SUBSET (1..Len(BandFreqs)) : Cardinality(T) <= MaxNotes}}

\* windows given to detect_bass_note: empty, or with a band spectrum
BassWindows == {None} \cup {Some(m) : m \in BandSpectra}

\* signal lengths given to track_tempo: no signal, exactly one window, and
\* one sample more than 0..MaxWindows-1 hops after a window
SignalLengths ==
    {0, WindowSize} \cup {WindowSize + k * TempoHop + 1 : k \in 0..(MaxWindows - 1)}

\* local tempos in BPM: 0 is what the tracker gives for a window without onsets
TempoValues == {0, 120, 240}

\* the arguments of track_tempo
TempoArgs ==
    {[op |-> "track_tempo", n_samples |-> n, tempos |-> t, fails_at |-> f,
      res |-> None] :
        n \in SignalLengths, t \in [1..MaxWindows -> TempoValues],
        f \in 0..MaxWindows}

Idle ==
    /\ argv = <<>>
    /\ run = 1
    /\ pc = "idle"
    /\ out = <<>>
    /\ exit_status = None
    /\ loc = InitLoc
    /\ tmp = NoFile
    /\ env = EmptyEnv
    /\ first = None
    /\ host = None

InitFn ==
    /\ Idle
    /\ fn \in {[op |-> "estimate_chord_enhanced", chroma_frame |-> f,
                peak |-> b, res |-> None] :
                  f \in ChordFrames, b \in BassNotes}
              \cup {[op |-> "detect_key", chroma |-> m, raises |-> r, res |-> None] :
                  m \in KeyMatrices, r \in BOOLEAN}

ApplyChord ==
    /\ fn.op = "estimate_chord_enhanced"
    /\ IsNone(fn.res)
    /\ fn' = [fn EXCEPT !.res = Some(BeatChord(fn.chroma_frame, 0, fn.peak))]
    /\ UNCHANGED <<argv, run, pc, out, exit_status, loc, tmp, env, first, host>>

ApplyKey ==
    /\ fn.op = "detect_key"
    /\ IsNone(fn.res)
    /\ fn' = [fn EXCEPT !.res = Some(detect_key(fn.chroma, fn.raises))]
    /\ UNCHANGED <<argv, run, pc, out, exit_status, loc, tmp, env, first, host>>

ApplyTimeSignature ==
    /\ fn.op = "detect_time_signature"
    /\ IsNone(fn.res)
    /\ fn' = [fn EXCEPT !.res = Some(detect_time_signature(fn.beat_times))]
    /\ UNCHANGED <<argv, run, pc, out, exit_status, loc, tmp, env, first, host>>

ApplyBass ==
    /\ fn.op = "detect_bass_note"
    /\ IsNone(fn.res)
    /\ fn' = [fn EXCEPT !.res = Some(detect_bass_note(BassPeak(fn.window)))]
    /\ UNCHANGED <<argv, run, pc, out, exit_status, loc, tmp, env, first, host>>

ApplyTempo ==
    /\ fn.op = "track_tempo"
    /\ IsNone(fn.res)
    /\ fn' = [fn EXCEPT
                !.res = Some(track_tempo(fn.n_samples, fn.tempos, fn.fails_at))]
    /\ UNCHANGED <<argv, run, pc, out, exit_status, loc, tmp, env, first, host>>

NextFn == ApplyChord \/ ApplyKey

SpecFn == InitFn /\ [][NextFn]_vars

\* the time-signature detector, the bass detector and the tempo tracker
\* applied on their own
InitSignal ==
    /\ Idle
    /\ fn \in {[op |-> "detect_time_signature", beat_times |-> t,
                res |-> None] : t \in BeatSequences}
              \cup {[op |-> "detect_bass_note", window |-> w, res |-> None] :
                     w \in BassWindows}
              \cup {a \in TempoArgs :
                     /\ a.fails_at <= NumWindows(a.n_samples)
                     /\ \A k \in 1..MaxWindows :
                           k > NumWindows(a.n_samples) => a.tempos[k] = 0}
              \cup {[op |-> "beat_grid_tempo", n_samples |-> a.n_samples,
                     tempos |-> a.tempos, fails_at |-> a.fails_at,
                     global_tempo |-> g * 1000, res |-> None] :
                     a \in {b \in TempoArgs :
                              /\ b.fails_at = 0
                              /\ NumWindows(b.n_samples) = MaxWindows},
                     g \in TempoValues}

ApplyBeatGridTempo ==
    /\ fn.op = "beat_grid_tempo"
    /\ IsNone(fn.res)
    /\ fn' = [fn EXCEPT
                !.res = Some(BeatGridTempo(fn.n_samples, fn.tempos, fn.fails_at,
                                           fn.global_tempo))]
    /\ UNCHANGED <<argv, run, pc, out, exit_status, loc, tmp, env, first, host>>

NextSignal ==
    ApplyTimeSignature \/ ApplyBass \/ ApplyTempo \/ ApplyBeatGridTempo

SpecSignal == InitSignal /\ [][NextSignal]_vars

---------------------------------------------------------------------------
(* The rhythm, drum and spectral functions applied to bounded inputs *)

\* the characters of the time signatures handed to detect_downbeats: the
\* three that detect_time_signature answers, one without a slash, and two
\* on which the computation fails
TimeSigStrings ==
    {<<"4", "/", "4">>, <<"3", "/", "4">>, <<"6", "/", "8">>, <<"4">>,
     <<"0", "/", "4">>, <<"x", "/", "4">>}

\* beats half a second apart
EvenBeats(n) == [k \in 1..n |-> (k - 1) * 500000]

\* onset envelopes of at most MaxEnvelope frames
Envelopes ==
    UNION {[1..n -> 0..MaxLevel] : n \in 0..MaxEnvelope}

StrengthBeats ==
    {<<>>, <<0>>, <<0, frames_to_time(1)>>,
     <<frames_to_time(1), frames_to_time(3)>>}

\* the first n frame marks
Marks(n) == [k \in 1..n |-> k]

FeatureLengths == 0..MaxFeatureFrames

\* onsets at 10, 50 and 60 ms from the first beat
OnsetSets == {<<>>, <<10000>>, <<50000>>, <<60000>>, <<60000, 510000>>}

DrumCases ==
    [kick_set : OnsetSets, snare_set : OnsetSets, kick_energy : {0, 30, 200},
     snare_energy : {30}, n_samples : {0, SampleRate}]

InitRhythm ==
    /\ Idle
    /\ fn \in {[op |-> "detect_downbeats", beat_times |-> EvenBeats(n),
                time_sig |-> s, raises |-> r, res |-> None] :
                 n \in 0..MaxMeasureBeats, s \in TimeSigStrings, r \in BOOLEAN}
              \cup {[op |-> "calculate_beat_strength", onset_strength |-> e,
                     beat_times |-> b, raises |-> r, res |-> None] :
                     e \in Envelopes, b \in StrengthBeats, r \in BOOLEAN}
              \cup {[op |-> "extract_spectral_features",
                     features |-> [centroid |-> Marks(c), rolloff |-> Marks(o),
                                   bandwidth |-> Marks(w),
                                   zero_crossing_rate |-> Marks(z)],
                     frame_times |-> [k \in 1..t |-> frames_to_time(k - 1)],
                     raises |-> r, res |-> None] :
                     c \in FeatureLengths, o \in FeatureLengths,
                     w \in FeatureLengths, z \in FeatureLengths,
                     t \in FeatureLengths, r \in BOOLEAN}
              \cup {[op |-> "detect_drums", beat_times |-> EvenBeats(n),
                     signal |-> d, res |-> None] :
                     n \in 0..2, d \in DrumCases}

ApplyDownbeats ==
    /\ fn.op = "detect_downbeats"
    /\ IsNone(fn.res)
    /\ fn' = [fn EXCEPT
                !.res = Some(detect_downbeats(fn.beat_times, fn.time_sig,
                                              fn.raises))]
    /\ UNCHANGED <<argv, run, pc, out, exit_status, loc, tmp, env, first, host>>

ApplyBeatStrength ==
    /\ fn.op = "calculate_beat_strength"
    /\ IsNone(fn.res)
    /\ fn' = [fn EXCEPT
                !.res = Some(calculate_beat_strength(fn.onset_strength,
                                                     fn.beat_times, fn.raises))]
    /\ UNCHANGED <<argv, run, pc, out, exit_status, loc, tmp, env, first, host>>

ApplySpectral ==
    /\ fn.op = "extract_spectral_features"
    /\ IsNone(fn.res)
    /\ fn' = [fn EXCEPT
                !.res = Some(extract_spectral_features(fn.features,
                                                       fn.frame_times, fn.raises))]
    /\ UNCHANGED <<argv, run, pc, out, exit_status, loc, tmp, env, first, host>>

ApplyDrums ==
    /\ fn.op = "detect_drums"
    /\ IsNone(fn.res)
    /\ fn' = [fn EXCEPT !.res = Some(detect_drums(fn.beat_times, fn.signal))]
    /\ UNCHANGED <<argv, run, pc, out, exit_status, loc, tmp, env, first, host>>

NextRhythm == ApplyDownbeats \/ ApplyBeatStrength \/ ApplySpectral \/ ApplyDrums

SpecRhythm == InitRhythm /\ [][NextRhythm]_vars

---------------------------------------------------------------------------
(* estimate_chord_enhanced applied to the frames of the template bank *)

\* a frame is a template, or a template divided by 5 (every weight of the
\* bank is a multiple of 0.05)
TemplateDivisors == {1, 5}

TemplateFrame(k, d) == [p \in PitchClasses |-> TEMPLATES[k][p] \div d]

InitBank ==
    /\ Idle
    /\ fn \in {[op |-> "estimate_chord_enhanced", template |-> k,
                chroma_frame |-> TemplateFrame(k, d), peak |-> b,
                res |-> None] :
                  k \in 1..NumTemplates, d \in TemplateDivisors,
                  b \in {None, Some(37)}}

NextBank == ApplyChord

SpecBank == InitBank /\ [][NextBank]_vars

---------------------------------------------------------------------------
(* The downloader, download.py.  A run of main from line 41 on: the output
   directory exists and the command line was parsed.  fn holds the locals of
   main, out the lines printed on stdout. *)

Letters ==
    {"a", "b", "c", "d", "e", "f", "g", "h", "i", "j", "k", "l", "m", "n", "o",
     "p", "q", "r", "s", "t", "u", "v", "w", "x", "y", "z",
     "A", "B", "C", "D", "E", "F", "G", "H", "I", "J", "K", "L", "M", "N", "O",
     "P", "Q", "R", "S", "T", "U", "V", "W", "X", "Y", "Z"}

\* what str.strip() removes at both ends
Whitespace == {" ", "\t", "\n", "\r"}

RECURSIVE LStrip(_)
LStrip(s) == IF s # <<>> /\ Head(s) \in Whitespace THEN LStrip(Tail(s)) ELSE s

RECURSIVE RStrip(_)
RStrip(s) ==
    IF s # <<>> /\ s[Len(s)] \in Whitespace
    THEN RStrip(SubSeq(s, 1, Len(s) - 1))
    ELSE s

\* line 10
Strip(s) == RStrip(LStrip(s))

\* the characters outside the negated class [^a-zA-Z0-9-_\. ]
Kept(c) == c \in Letters \/ IsDigit(c) \/ c \in {"-", "_", ".", " "}

\* line 11
RemoveOthers(s) == SelectSeq(s, Kept)

\* line 12
ReplaceSpaces(s) == [n \in 1..Len(s) |-> IF s[n] = " " THEN "_" ELSE s[n]]

\* lines 9-13
sanitize_filename(name) == ReplaceSpaces(RemoveOthers(Strip(name)))

\* the characters that titles are made of
TitleChars == {"a", "7", " ", "?", ".", "-"}

Titles == UNION {[1..n -> TitleChars] : n \in 0..MaxTitleLen}

\* what extract_info answers at line 81: it raises, or it returns a
\* dictionary without a title, with a null title, or with a title
Infos ==
    {[kind |-> "raises"], [kind |-> "no_title"], [kind |-> "null_title"]}
    \cup {[kind |-> "title", chars |-> t] : t \in Titles}

\* lines 45-49, 73-77, 87-91, 105-109
StatusError(code) == [status |-> "error", error |-> code]

\* line 100
StatusSuccess(name, title) ==
    [status |-> "success", path |-> [dir |-> "output_dir", name |-> name],
     title |-> title]

\* a handler that catches every exception, SystemExit included
CaughtByBareExcept(exception) == TRUE

\* except Exception (lines 86, 104): SystemExit is no Exception
CaughtByExceptException(exception) == exception = "Exception"

\* the process ends with this line printed and this status
Exit(line, raised, code) ==
    /\ out' = Append(out, line)
    /\ exit_status' = Some(code)
    /\ pc' = "exited"
    /\ fn' = [fn EXCEPT !.raised = raised]

InitDownload ==
    /\ argv = <<"url">>
    /\ run = 1
    /\ pc = "import"
    /\ out = <<>>
    /\ exit_status = None
    /\ loc = InitLoc
    /\ tmp = NoFile
    /\ env = EmptyEnv
    /\ first = None
    /\ host = None
    /\ fn = [op |-> "download", raised |-> None, title |-> None,
             sanitized |-> None]

\* lines 41-50
DownloadImport ==
    /\ pc = "import"
    /\ \E raises \in BOOLEAN :
          IF raises
          THEN Exit(StatusError("yt_dlp_missing"), Some("import yt_dlp"), 1)
          ELSE /\ pc' = "ffmpeg"
               /\ UNCHANGED <<out, exit_status, fn>>
    /\ UNCHANGED <<argv, run, loc, tmp, env, first, host>>

\* lines 69-78 and the handler of line 86: sys.exit(4) raises SystemExit
\* inside the try block
DownloadCheckFfmpeg ==
    /\ pc = "ffmpeg"
    /\ \E found \in BOOLEAN :
          IF found
          THEN /\ pc' = "extract"
               /\ UNCHANGED <<out, exit_status, fn>>
          ELSE IF CaughtByExceptException("SystemExit")
          THEN /\ out' = out \o <<StatusError("ffmpeg_missing"),
                                  StatusError("url_extract_failed")>>
               /\ exit_status' = Some(2)
               /\ pc' = "exited"
               /\ fn' = [fn EXCEPT !.raised = Some("shutil.which")]
          ELSE Exit(StatusError("ffmpeg_missing"), Some("shutil.which"), 4)
    /\ UNCHANGED <<argv, run, loc, tmp, env, first, host>>

\* lines 80-92: a null title makes sanitize_filename raise AttributeError
DownloadExtract ==
    /\ pc = "extract"
    /\ \E info \in Infos :
          IF info.kind \in {"raises", "null_title"}
             /\ CaughtByExceptException("Exception")
          THEN Exit(StatusError("url_extract_failed"), Some("extract_info"), 2)
          ELSE LET title == IF info.kind = "title" THEN info.chars
                            ELSE <<"d", "o", "w", "n", "l", "o", "a", "d">>
               IN /\ info.kind \in {"title", "no_title"}
                  /\ fn' = [fn EXCEPT !.title = Some(title),
                                      !.sanitized = Some(sanitize_filename(title))]
                  /\ pc' = "download"
                  /\ UNCHANGED <<out, exit_status>>
    /\ UNCHANGED <<argv, run, loc, tmp, env, first, host>>

\* lines 94-110
DownloadFetch ==
    /\ pc = "download"
    /\ \E raises \in BOOLEAN :
          IF raises /\ CaughtByExceptException("Exception")
          THEN Exit(StatusError("download_failed"), Some("download"), 3)
          ELSE /\ ~raises
               /\ out' = Append(out,
                            StatusSuccess(fn.sanitized[1] \o <<".", "m", "p", "3">>,
                                          fn.title[1]))
               /\ exit_status' = Some(0)
               /\ pc' = "exited"
               /\ UNCHANGED fn
    /\ UNCHANGED <<argv, run, loc, tmp, env, first, host>>

NextDownload ==
    DownloadImport \/ DownloadCheckFfmpeg \/ DownloadExtract \/ DownloadFetch

SpecDownload == InitDownload /\ [][NextDownload]_vars

---------------------------------------------------------------------------
(* Properties *)

Indices(kind) == {n \in 1..Len(out) : Kind(out[n]) = kind}

Terminals == Indices("complete") \cup Indices("error")

IsProgress(n) == Kind(n) = "progress"

ProgressOf(notifications) == SelectSeq(notifications, IsProgress)

IsPrefix(s, t) == Len(s) <= Len(t) /\ SubSeq(t, 1, Len(s)) = s

\* the exit status of a run that reaches the end of analyze
SuccessStatus == Some(0)

\* C1: every run ends with exactly one terminal notification (complete or
\* error), nothing is printed after it, and a run that reports an error
\* announces no completion path.
C1_OneTerminalNotification ==
    /\ Cardinality(Terminals) <= 1
    /\ \A n \in Terminals : n = Len(out)
    /\ pc = "exited" => Cardinality(Terminals) = 1
    /\ Indices("error") # {} => Indices("complete") = {}

\* C2: in every run the progress percentages never decrease, lie in 0..100,
\* and every progress notification names its stage.
C2_ProgressMonotone ==
    LET p == ProgressOf(out)
    IN /\ \A i \in 1..Len(p), j \in 1..Len(p) : i < j => p[i].value <= p[j].value
       /\ \A i \in 1..Len(p) : p[i].value \in 0..100 /\ p[i].stage # ""

\* a run that went through every stage and announced its result
C2_Witness ==
    /\ Len(ProgressOf(out)) = 16
    /\ Indices("complete") # {}

\* C3: when loading fails the run reports an error, ends with an exit status
\* other than that of a successful run, and produces no result file.
C3_LoadFailureDistinctExit ==
    (pc = "exited" /\ P("load") \in loc.raised) =>
        /\ Indices("error") # {}
        /\ Indices("complete") = {}
        /\ tmp.state = "none"
        /\ exit_status # SuccessStatus

\* the calls made by the analysis stages after loading and separation
StagePoints ==
    {P(name) : name \in {"track_tempo", "beat_track", "detect_time_signature",
                         "detect_downbeats", "calculate_beat_strength", "chroma",
                         "detect_key", "extract_spectral_features",
                         "extract_onsets", "analyze_harmonic_content",
                         "extract_tonnetz", "detect_drums"}}
    \cup {<<name, n>> : name \in {"detect_bass_note", "estimate_chord_enhanced"},
                        n \in 1..(MaxFrame + 1)}

\* C4: once the signal is loaded, a failure inside an analysis stage is
\* absorbed: the run prints no error and ends with the completion notification.
C4_StageFailuresAbsorbed ==
    (loc.raised # {} /\ loc.raised \subseteq StagePoints) =>
        /\ Indices("error") = {}
        /\ pc = "exited" => Indices("complete") # {}

\* C5: when the harmonic-percussive separation fails the run goes on with
\* the unmodified signal as both components.
C5_HpssFallback ==
    P("hpss") \in loc.raised =>
        /\ loc.y_harm = loc.y /\ loc.y_perc = loc.y
        /\ Indices("error") = {}
        /\ exit_status # Some(1)

\* C6: when the completion notification is out, the result file is complete,
\* flushed and closed, so the host always reads the whole result.
C6_ArtifactCompleteAtNotification ==
    /\ Indices("complete") # {} => tmp.state = "closed" /\ tmp.disk = tmp.size
    /\ ~IsNone(host) => host[1].read = host[1].size

\* C7: the beat timestamps are strictly increasing and the drum grid has one
\* entry per beat, in beat order, the i-th at the i-th beat timestamp.
C7_DrumGridPerBeat ==
    /\ StrictlyIncreasing(loc.beat_times)
    /\ ~IsNone(loc.drum_grid) =>
          LET g == loc.drum_grid[1]
          IN /\ Len(g) = Len(loc.beat_times)
             /\ \A n \in 1..Len(g) : g[n].time = loc.beat_times[n]

\* a grid over several beats, of which one has a snare and another has none
C7_Witness ==
    /\ ~IsNone(loc.drum_grid)
    /\ Len(loc.beat_times) >= 2
    /\ \E n, m \in 1..Len(loc.drum_grid[1]) :
          loc.drum_grid[1][n].hasSnare /\ ~loc.drum_grid[1][m].hasSnare

\* C8: the chord confidence and the key confidence lie in [0, 1], and a frame
\* without energy gives the label "N" with confidence 0.
C8_ConfidenceRange ==
    ~IsNone(fn.res) =>
       IF fn.op = "estimate_chord_enhanced"
       THEN /\ fn.res[1].chord.confidence \in 0..1000
            /\ Sum12(fn.chroma_frame) = 0 =>
                  /\ fn.res[1].chord.label = NoChord
                  /\ fn.res[1].chord.confidence = 0
       ELSE fn.res[1].confidence \in 0..1000

\* a frame whose best score exceeds 1 before line 173 clamps it
C8_Witness ==
    /\ fn.op = "estimate_chord_enhanced"
    /\ ~IsNone(fn.res)
    /\ Norm2(fn.chroma_frame) # 0
    /\ LET scores == Scores(fn.chroma_frame)
       IN ScoreMilli(scores[ArgMax(scores)], Norm2(fn.chroma_frame)) > 1000

\* C9: in a chord event the bass pitch class is absent or in 0..11, the
\* inversion is in 0..3, and the inversion is 0 when the bass is absent or is
\* the chord's root, and in every event labelled "N".
C9_EventBassAndInversion ==
    (fn.op = "estimate_chord_enhanced" /\ ~IsNone(fn.res)) =>
       LET e == fn.res[1].event
       IN /\ e.bass_pitch_class \in {None} \cup {Some(b) : b \in 0..11}
          /\ e.chord_inversion \in {Some(k) : k \in 0..3}
          /\ (\/ IsNone(e.bass_pitch_class)
              \/ e.chord = NoChord
              \/ e.bass_pitch_class = Some(RootMap(RootStr(e.chord))))
             => e.chord_inversion = Some(0)

\* an event labelled "N" with a bass note
C9_Witness ==
    /\ fn.op = "estimate_chord_enhanced"
    /\ ~IsNone(fn.res)
    /\ fn.res[1].event.chord = NoChord
    /\ fn.res[1].event.bass_pitch_class = Some(7)

C11_EventsTimeOrdered ==
    LET ev == loc.raw_events
    IN /\ \A n \in 1..Len(ev), m \in 1..Len(ev) :
             n < m => ev[n].timestamp < ev[m].timestamp
       /\ \A n \in 1..Len(ev) :
             \E k \in 1..loc.i : ev[n].timestamp = loc.beat_times[k]
       /\ \A k \in 1..Len(loc.beat_times) :
             Cardinality({n \in 1..Len(ev) :
                             ev[n].timestamp = loc.beat_times[k]}) <= 1

\* the loop is over and left an event at each of several beats
C11_Witness ==
    /\ pc = "drums"
    /\ Len(loc.raw_events) >= 2
    /\ Len(loc.raw_events) = Len(loc.beat_times)

\* quality enum of a chord event
Qualities == {"major", "minor", "dominant7", "major7", "minor7", "suspended"}

\* C12: the quality of every chord event is one of major, minor, dominant7,
\* major7, minor7, suspended, also for a frame without energy, labelled "N".
C12_QualityInEnum ==
    (fn.op = "estimate_chord_enhanced" /\ ~IsNone(fn.res)) =>
        fn.res[1].event.chord_quality \in Qualities

\* the tests of the time-signature rule on the intervals of a beat sequence
IntervalsOf(beat_times) == Diff(beat_times)

CvOk(beat_times) == CvBelowThreshold(IntervalsOf(beat_times))

Lag3Ok(beat_times) ==
    LET x == IntervalsOf(beat_times)
    IN 10 * Autocorr(x, 3) > 7 * MaxAutocorr(x, 1, 6)

Lag6Ok(beat_times) ==
    LET x == IntervalsOf(beat_times)
    IN 10 * Autocorr(x, 6) > 7 * MaxAutocorr(x, 1, 10)

TimeSig(sig, confidence) == [time_sig |-> sig, confidence |-> confidence]

\* C13: fewer than 8 beats give 4/4 at 0.5; at least 8 beats with a
\* coefficient of variation below 0.15 give 4/4 at 0.8 whatever the
\* autocorrelation; the result depends on the beats only (it is the value of
\* an operator of them) and is one of (4/4, 0.5), (4/4, 0.8), (3/4, 0.7),
\* (6/8, 0.7), (4/4, 0.6).
C13_TimeSignatureDefaults ==
    (fn.op = "detect_time_signature" /\ ~IsNone(fn.res)) =>
       LET r == fn.res[1]
           n == Len(fn.beat_times)
       IN /\ r \in {TimeSig("4/4", 500), TimeSig("4/4", 800), TimeSig("3/4", 700),
                    TimeSig("6/8", 700), TimeSig("4/4", 600)}
          /\ n < 8 => r = TimeSig("4/4", 500)
          /\ (n >= 8 /\ CvOk(fn.beat_times)) => r = TimeSig("4/4", 800)

\* near-uniform beats, enough of them for the autocorrelation tests, whose
\* lag-3 autocorrelation passes the 3/4 test
C13_Witness ==
    /\ fn.op = "detect_time_signature"
    /\ ~IsNone(fn.res)
    /\ Len(fn.beat_times) >= 13
    /\ CvOk(fn.beat_times)
    /\ Lag3Ok(fn.beat_times)
    /\ \E n \in 1..(Len(fn.beat_times) - 2) :
          fn.beat_times[n + 1] - fn.beat_times[n]
              # fn.beat_times[n + 2] - fn.beat_times[n + 1]

\* a chroma matrix with at least one frame and no energy in any frame
Silent(chroma) == chroma # <<>> /\ \A n \in 1..Len(chroma) : Sum12(chroma[n]) = 0

\* C14: for a silent chroma matrix each of the 24 correlations is NaN and is
\* taken as zero, and detect_key answers key C, mode major, confidence 0.5.
C14_SilentKey ==
    (fn.op = "detect_key" /\ ~IsNone(fn.res) /\ Silent(fn.chroma)) =>
       /\ \A shift \in PitchClasses :
             /\ IsNone(Corrcoef(KeyProfile(fn.chroma), Roll(major_profile, shift)))
             /\ IsNone(Corrcoef(KeyProfile(fn.chroma), Roll(minor_profile, shift)))
       /\ \A n \in 1..24 : Correlations(KeyProfile(fn.chroma))[n].corr = 0
       /\ fn.res[1] = [key |-> <<"C">>, mode |-> "major", confidence |-> 500]

\* detect_key went through its correlations on two silent frames
C14_Witness ==
    /\ fn.op = "detect_key"
    /\ ~IsNone(fn.res)
    /\ ~fn.raises
    /\ Len(fn.chroma) = 2
    /\ Silent(fn.chroma)

\* C15: at least 8 beats whose coefficient of variation is not below 0.15 and
\* whose lag-3 autocorrelation exceeds 70% of the largest over lags 1..5 give
\* 3/4 at 0.7.
C15_ThreeFourRule ==
    (fn.op = "detect_time_signature" /\ ~IsNone(fn.res)) =>
       ((/\ Len(fn.beat_times) >= 8
         /\ ~CvOk(fn.beat_times)
         /\ Lag3Ok(fn.beat_times))
        => fn.res[1] = TimeSig("3/4", 700))

\* C16: 6/8 at 0.7 is declared only when the uniformity test and the lag-3
\* test have failed and the lag-6 autocorrelation exceeds 70% of the largest
\* over lags 1..9, so the 3/4 test comes first; at least 8 beats that pass
\* none of the three tests give 4/4 at 0.6.
C16_SixEightRule ==
    (fn.op = "detect_time_signature" /\ ~IsNone(fn.res)) =>
       /\ fn.res[1].time_sig = "6/8" =>
             /\ fn.res[1] = TimeSig("6/8", 700)
             /\ ~CvOk(fn.beat_times)
             /\ ~Lag3Ok(fn.beat_times)
             /\ Lag6Ok(fn.beat_times)
       /\ (/\ Len(fn.beat_times) >= 8
           /\ ~CvOk(fn.beat_times)
           /\ ~Lag3Ok(fn.beat_times)
           /\ ~Lag6Ok(fn.beat_times))
          => fn.res[1] = TimeSig("4/4", 600)

\* beats that alternate between short and long intervals were given 6/8
C16_Witness ==
    /\ fn.op = "detect_time_signature"
    /\ ~IsNone(fn.res)
    /\ fn.res[1] = TimeSig("6/8", 700)

\* C17: going through the beats in order, a beat gets a chord event exactly
\* when its label differs from the last emitted label or repeats it with a
\* confidence of at least 0.7; a repeat below 0.7 appends nothing and leaves
\* the remembered label as it was.
C17_EmissionPolicy ==
    [][(pc = "chord_loop" /\ pc' \in {"chord_loop", "drums"}) =>
          LET n == loc.i + 1
              c == estimate_chord_enhanced(loc.beat_aligned_chroma[n], None)
              differs == loc.last_label # Some(c.label)
              emits == loc'.raw_events # loc.raw_events
          IN /\ loc'.i = n
             /\ emits <=> (differs \/ c.confidence >= 700)
             /\ emits =>
                   /\ Len(loc'.raw_events) = Len(loc.raw_events) + 1
                   /\ SubSeq(loc'.raw_events, 1, Len(loc.raw_events)) = loc.raw_events
                   /\ loc'.raw_events[Len(loc'.raw_events)].chord = c.label
                   /\ loc'.raw_events[Len(loc'.raw_events)].confidence = c.confidence
                   /\ loc'.raw_events[Len(loc'.raw_events)].timestamp
                         = loc.beat_times[n]
                   /\ loc'.last_label = Some(c.label)
             /\ ~emits => loc'.last_label = loc.last_label]_vars

\* the loop went over two beats with the same low-confidence label and left
\* one event
C17_Witness ==
    /\ pc = "drums"
    /\ Len(loc.beat_aligned_chroma) = 2
    /\ loc.beat_aligned_chroma[1] = loc.beat_aligned_chroma[2]
    /\ Len(loc.raw_events) = 1
    /\ loc.last_label = Some(NoChord)

\* the inversion the mapping gives to an interval from the root up to the bass
InversionOfInterval(interval) ==
    CASE interval \in {3, 4} -> 1
      [] interval = 7 -> 2
      [] interval \in {10, 11} -> 3
      [] OTHER -> 0

\* C18: with a bass b other than the root r, estimate_chord_enhanced turns
\* the interval (b - r) mod 12 into the inversion: 3 or 4 into 1, 7 into 2,
\* 10 or 11 into 3, any other into 0, whatever the quality of the chord.
C18_InversionMapping ==
    (fn.op = "estimate_chord_enhanced" /\ ~IsNone(fn.res)) =>
       LET c == fn.res[1].chord
           b == fn.res[1].event.bass_pitch_class
           r == RootMap(RootStr(c.label))
       IN (c.label # NoChord /\ ~IsNone(b) /\ b[1] # r) =>
             c.inversion = Some(InversionOfInterval((b[1] - r) % 12))

\* a chord that is not a major triad, with its fifth in the bass
C18_Witness ==
    /\ fn.op = "estimate_chord_enhanced"
    /\ ~IsNone(fn.res)
    /\ fn.res[1].chord.quality \notin {"major", "unknown"}
    /\ ~IsNone(fn.res[1].event.bass_pitch_class)
    /\ (fn.res[1].event.bass_pitch_class[1]
          - RootMap(RootStr(fn.res[1].chord.label))) % 12 = 7
    /\ fn.res[1].chord.inversion = Some(2)

\* the band of a window holds a peak that qualifies: energy in the band, a
\* largest magnitude of at least 30% of the band's maximum, above 30 Hz
QualifyingPeak(window) ==
    /\ ~IsNone(window)
    /\ \E n \in 1..Len(window[1]) :
          /\ window[1][n] > 0
          /\ \A m \in 1..Len(window[1]) : window[1][m] <= window[1][n]
          /\ 10 * window[1][n] >= 3 * MaxOf(window[1])
          /\ BandFreqs[n] > 30

\* C19: detect_bass_note returns a pitch class only when the 40-200 Hz band
\* of the window holds a qualifying peak; without one, in particular for a
\* silent window, it returns None.
C19_BassNeedsPeak ==
    (fn.op = "detect_bass_note" /\ ~IsNone(fn.res)) =>
        (~IsNone(fn.res[1]) <=> QualifyingPeak(fn.window))

\* C20: an empty tempo track (no window in the signal, or the tracker
\* raised) comes with tempo 120 BPM and confidence 0.5; with a track that is
\* not empty the confidence is in [0, 1]; tempo_track and tempo_times have
\* the same length.
C20_TempoDefaults ==
    (fn.op = "track_tempo" /\ ~IsNone(fn.res)) =>
       LET r == fn.res[1]
       IN /\ (NumWindows(fn.n_samples) = 0 \/ fn.fails_at # 0)
                => r.tempo_track = <<>>
          /\ r.tempo_track = <<>> => r.tempo = 120000 /\ r.confidence = 500
          /\ r.tempo_track # <<>> => r.confidence \in 0..1000
          /\ Len(r.tempo_track) = Len(r.tempo_times)

\* a track over several windows whose deviation is larger than its mean
C20_Witness ==
    /\ fn.op = "track_tempo"
    /\ ~IsNone(fn.res)
    /\ Len(fn.res[1].tempo_track) >= 3
    /\ RawTempoConfidence([k \in 1..Len(fn.res[1].tempo_track) |-> fn.tempos[k]]) < 0
    /\ fn.res[1].confidence = 0

\* C21: the tempo reported as beat_grid.tempo_bpm is the median of the
\* windowed tempo track, the estimate that tempo_confidence was computed for.
C21_TempoIsTrackMedian ==
    (fn.op = "beat_grid_tempo" /\ ~IsNone(fn.res)) =>
       LET r == fn.res[1]
           track == [k \in 1..Len(r.tempo_track) |-> r.tempo_track[k] \div 1000]
       IN r.tempo_track # <<>> => r.tempo_bpm = Median(track)

\* C22: for a time signature with numerator N, detect_downbeats returns the
\* beats at the indices 0, N, 2N, ... in order; when that computation fails
\* it returns the beats at the indices 0, 4, 8, ... of every beat sequence,
\* those of 1 to 3 beats included.
C22_DownbeatsEveryNth ==
    (fn.op = "detect_downbeats" /\ ~IsNone(fn.res)) =>
       LET numerator == Numerator(fn.time_sig)
           fails == fn.raises \/ IsNone(numerator) \/ numerator = Some(0)
       IN /\ ~fails => fn.res[1] = EveryNth(fn.beat_times, numerator[1])
          /\ fails => fn.res[1] = EveryNth(fn.beat_times, 4)

\* C23: calculate_beat_strength returns one strength per beat, each in
\* [0, 1] and, when the envelope was computed and is not empty, the
\* normalised envelope level at the frame nearest to the beat; when the
\* envelope cannot be computed or used every beat gets 0.5.
C23_BeatStrengths ==
    (fn.op = "calculate_beat_strength" /\ ~IsNone(fn.res)) =>
       LET r == fn.res[1]
           e == fn.onset_strength
       IN /\ Len(r) = Len(fn.beat_times)
          /\ \A k \in 1..Len(r) : r[k] \in 0..1000
          /\ (fn.raises \/ e = <<>>) => \A k \in 1..Len(r) : r[k] = 500
          /\ (~fn.raises /\ e # <<>>) =>
                \A k \in 1..Len(r) :
                   \E n \in 1..Len(e) :
                      /\ \A m \in 1..Len(e) :
                            Abs(frames_to_time(n - 1) - fn.beat_times[k])
                               <= Abs(frames_to_time(m - 1) - fn.beat_times[k])
                      /\ r[k] * MaxLevelOf(e) <= 1000 * e[n]
                      /\ 1000 * e[n] < (r[k] + 1) * MaxLevelOf(e) + 1

\* two beats on an envelope that rises: the first beat is weaker than the
\* second, which has the full strength
C23_Witness ==
    /\ fn.op = "calculate_beat_strength"
    /\ ~IsNone(fn.res)
    /\ ~fn.raises
    /\ Len(fn.res[1]) = 2
    /\ fn.res[1][1] = 500
    /\ fn.res[1][2] = 1000
    /\ fn.onset_strength = <<1, 2>>

\* C24: in every drum grid entry hasKick (hasSnare) holds exactly when a
\* detected kick (snare) onset is less than 50 ms from the beat; both
\* confidences are in [0, 1] and are 0 when their flag is false; the drums
\* list holds "kick" iff hasKick and "snare" iff hasSnare.
C24_DrumEntryConsistent ==
    (fn.op = "detect_drums" /\ ~IsNone(fn.res)) =>
       \A k \in 1..Len(fn.res[1]) :
          LET e == fn.res[1][k]
              t == fn.beat_times[k]
              near(onset_set) ==
                  \E j \in 1..Len(onset_set) : Abs(onset_set[j] - t) < tol
              holds(name) == \E j \in 1..Len(e.drums) : e.drums[j] = name
          IN /\ e.hasKick <=> near(fn.signal.kick_set)
             /\ e.hasSnare <=> near(fn.signal.snare_set)
             /\ e.kickConfidence \in 0..1000
             /\ e.snareConfidence \in 0..1000
             /\ ~e.hasKick => e.kickConfidence = 0
             /\ ~e.hasSnare => e.snareConfidence = 0
             /\ holds("kick") <=> e.hasKick
             /\ holds("snare") <=> e.hasSnare

\* a grid with a loud kick close to the first beat, whose energy factor is
\* held at 1, and a second beat without a kick
C24_Witness ==
    /\ fn.op = "detect_drums"
    /\ ~IsNone(fn.res)
    /\ Len(fn.res[1]) = 2
    /\ fn.signal.kick_energy = 200
    /\ fn.res[1][1].hasKick
    /\ fn.res[1][1].kickConfidence = 800
    /\ ~fn.res[1][2].hasKick
    /\ fn.res[1][2].kickConfidence = 0
    /\ ~fn.res[1][1].hasSnare

FamilyQualities ==
    <<"major", "minor", "dominant7", "major7", "minor7", "suspended">>

\* C26: the bank holds 72 entries, 12 roots for each of 6 families, with
\* pairwise distinct labels; the root pitch class and the quality that
\* estimate_chord_enhanced derives from an entry's label are the root index
\* and the family the entry was built with; a match answers a label of the
\* bank as it was built, with that root and that quality.
C26_BankLabelsParse ==
    /\ Len(TEMPLATE_MATRIX) = 72
    /\ Len(LABELS) = 72
    /\ \A k \in 1..72, j \in 1..72 : k # j => LABELS[k] # LABELS[j]
    /\ \A family \in 1..6, i \in PitchClasses :
          LET k == (family - 1) * 12 + i + 1
          IN /\ TEMPLATE_MATRIX[k] = BuildTemplate(family, i)
             /\ RootMap(RootStr(LABELS[k])) = i
             /\ QualityOf(LABELS[k]) = FamilyQualities[family]
    /\ (fn.op = "estimate_chord_enhanced" /\ ~IsNone(fn.res)
        /\ fn.res[1].chord.label # NoChord) =>
          \E family \in 1..6, i \in PitchClasses :
             /\ fn.res[1].chord.label = LABELS[(family - 1) * 12 + i + 1]
             /\ fn.res[1].chord.quality = FamilyQualities[family]
             /\ fn.res[1].event.chord_quality = FamilyQualities[family]
             /\ (fn.peak = Some(36 + i) \/ IsNone(fn.peak))
                   => fn.res[1].chord.inversion = Some(0)

\* a frame matched to the suspended chord on C sharp, with C sharp in the
\* bass
C26_Witness ==
    /\ fn.op = "estimate_chord_enhanced"
    /\ ~IsNone(fn.res)
    /\ fn.res[1].chord.label = <<"C", "#", "s", "u", "s", "4">>
    /\ fn.res[1].chord.quality = "suspended"
    /\ fn.res[1].chord.inversion = Some(0)
    /\ fn.peak = Some(37)

\* C27: a frame equal or proportional to a template of the bank is matched
\* to that template's own label: no other template has a strictly higher
\* dot product with it, and a major or minor triad template is not labelled
\* as the major7 or minor7 chord on its root.
C27_TemplateMatchesItself ==
    (fn.op = "estimate_chord_enhanced" /\ ~IsNone(fn.res)) =>
       /\ fn.res[1].chord.label = LABELS[fn.template]
       /\ \A k \in 1..NumTemplates :
             Dot(TEMPLATE_MATRIX[k], fn.chroma_frame)
                <= Dot(TEMPLATE_MATRIX[fn.template], fn.chroma_frame)

\* the label computed at beat n of the chord-event loop
LabelAt(n) == estimate_chord_enhanced(loc.beat_aligned_chroma[n], None).label

\* C28: in the chord-event loop the remembered label is always the label
\* computed at the beat just visited, so a beat is skipped only if the beat
\* before it had the same label; the first beat always leaves an event, and
\* in a run of beats labelled "N" only the first one does.
C28_RememberedLabelIsPrevious ==
    /\ [](loc.i >= 1 => loc.last_label = Some(LabelAt(loc.i)))
    /\ [][(pc = "chord_loop" /\ pc' \in {"chord_loop", "drums"}) =>
             LET n == loc.i + 1
                 emits == loc'.raw_events # loc.raw_events
             IN /\ loc'.i = n
                /\ loc'.last_label = Some(LabelAt(n))
                /\ n = 1 => emits
                /\ (~emits) => (n > 1 /\ LabelAt(n - 1) = LabelAt(n))
                /\ LabelAt(n) = NoChord =>
                      (emits <=> (n = 1 \/ LabelAt(n - 1) # NoChord))]_vars

\* the loop went over two silent beats and left the event of the first
C28_Witness ==
    /\ pc = "drums"
    /\ loc.i = 2
    /\ LabelAt(1) = NoChord
    /\ LabelAt(2) = NoChord
    /\ Len(loc.raw_events) = 1
    /\ loc.raw_events[1].timestamp = loc.beat_times[1]

\* the candidates of detect_key that hold the largest correlation
BestCandidates(chroma) ==
    LET cs == Correlations(KeyProfile(chroma))
    IN {n \in 1..24 : \A m \in 1..24 : cs[m].corr <= cs[n].corr}

\* C29: detect_key answers a candidate (mode, rotation) with the largest of
\* the 24 correlations; among several with the largest it answers the one
\* with the lowest rotation, and major before minor at the same rotation.
C29_KeyTieBreak ==
    (fn.op = "detect_key" /\ ~IsNone(fn.res) /\ ~fn.raises) =>
       LET cs == Correlations(KeyProfile(fn.chroma))
       IN \E n \in BestCandidates(fn.chroma) :
             /\ fn.res[1].key = ROOTS[cs[n].shift + 1]
             /\ fn.res[1].mode = cs[n].mode
             /\ fn.res[1].confidence = KeyConfidence(cs[n].corr)
             /\ \A m \in BestCandidates(fn.chroma) \ {n} :
                   \/ cs[n].shift < cs[m].shift
                   \/ (cs[n].shift = cs[m].shift /\ cs[n].mode = "major"
                       /\ cs[m].mode = "minor")

\* a chroma with energy on which two rotations hold the largest correlation
C29_Witness ==
    /\ fn.op = "detect_key"
    /\ ~IsNone(fn.res)
    /\ ~fn.raises
    /\ ~Silent(fn.chroma)
    /\ fn.chroma # <<>>
    /\ Cardinality(BestCandidates(fn.chroma)) = 2
    /\ fn.res[1].confidence > 500

\* the characters a sanitized file name is made of
FileNameChars == Letters \cup {Digits[d] : d \in 1..10} \cup {"-", "_", "."}

\* the exit status of each outcome of the downloader
DownloadStatus ==
    [raised \in {Some("import yt_dlp"), Some("extract_info"), Some("download"),
                 Some("shutil.which"), None} |->
        CASE raised = Some("import yt_dlp") -> [code |-> "yt_dlp_missing", exit |-> 1]
          [] raised = Some("extract_info") -> [code |-> "url_extract_failed", exit |-> 2]
          [] raised = Some("download") -> [code |-> "download_failed", exit |-> 3]
          [] raised = Some("shutil.which") -> [code |-> "ffmpeg_missing", exit |-> 4]
          [] OTHER -> [code |-> "none", exit |-> 0]]

===========================================================================
